---- MODULE Spec2Model ----
(***************************************************************************)
(* Model of the request panel (app/pages/1_Solicitar.py), its validators,  *)
(* the natural-key builder and the admin page's key derivations.           *)
(*                                                                         *)
(* Text is modelled as a sequence of one-character strings, so that the    *)
(* normalisations (strip, upper, accent stripping, regex matching, joining *)
(* with a newline) are computed character by character as the code does.   *)
(* A missing value (None / NaN / <NA>) of a text cell is the one-element   *)
(* sequence NaN, whose element is no character.                            *)
(***************************************************************************)
EXTENDS Integers, Sequences, FiniteSets, TLC

(* ------------------------------------------------------------------ *)
(* Text primitives (Python str methods used by the code)               *)
(* ------------------------------------------------------------------ *)

NaN == <<"NaN">>

Lower26 == <<"a","b","c","d","e","f","g","h","i","j","k","l","m",
             "n","o","p","q","r","s","t","u","v","w","x","y","z">>

Upper26 == <<"A","B","C","D","E","F","G","H","I","J","K","L","M",
             "N","O","P","Q","R","S","T","U","V","W","X","Y","Z">>

Digits10 == <<"0","1","2","3","4","5","6","7","8","9">>

AsciiLower == {Lower26[i] : i \in 1..26}

AsciiUpper == {Upper26[i] : i \in 1..26}

AsciiDigit == {Digits10[i] : i \in 1..10}

Whitespace == {" ", "\t", "\n"}

IndexIn(c, alphabet) == CHOOSE i \in 1..Len(alphabet) : alphabet[i] = c

UpperChar(c) ==
  IF c \in AsciiLower THEN Upper26[IndexIn(c, Lower26)]
  ELSE IF c = "ã" THEN "Ã"
  ELSE IF c = "ç" THEN "Ç"
  ELSE c

LowerChar(c) ==
  IF c \in AsciiUpper THEN Lower26[IndexIn(c, Upper26)]
  ELSE IF c = "Ã" THEN "ã"
  ELSE IF c = "Ç" THEN "ç"
  ELSE c

str_upper(s) == [i \in 1..Len(s) |-> UpperChar(s[i])]

str_lower(s) == [i \in 1..Len(s) |-> LowerChar(s[i])]

str_strip(s) ==
  LET keep == {i \in 1..Len(s) : s[i] \notin Whitespace}
  IN  IF keep = {} THEN <<>>
      ELSE LET lo == CHOOSE i \in keep : \A j \in keep : i <= j
               hi == CHOOSE i \in keep : \A j \in keep : j <= i
           IN  SubSeq(s, lo, hi)

\* Series.astype(str) of a text cell: a missing value becomes the text "nan".
astype_str(v) == IF v = NaN THEN <<"n","a","n">> ELSE v

RECURSIVE IntDigits(_)
IntDigits(n) ==
  IF n < 10 THEN <<Digits10[n + 1]>>
  ELSE IntDigits(n \div 10) \o <<Digits10[(n % 10) + 1]>>

\* str(int)
str_int(n) == IF n < 0 THEN <<"-">> \o IntDigits(0 - n) ELSE IntDigits(n)

RECURSIVE str_join(_, _)
str_join(sep, parts) ==
  IF Len(parts) = 0 THEN <<>>
  ELSE IF Len(parts) = 1 THEN parts[1]
  ELSE parts[1] \o sep \o str_join(sep, Tail(parts))

(* ------------------------------------------------------------------ *)
(* app/utils/validators.py                                             *)
(* ------------------------------------------------------------------ *)

\* unicodedata NFKD decomposition followed by dropping the combining marks
StripAccentChar(c) ==
  IF c = "ã" THEN "a"
  ELSE IF c = "Ã" THEN "A"
  ELSE IF c = "ç" THEN "c"
  ELSE IF c = "Ç" THEN "C"
  ELSE c

strip_accents(value) ==
  IF value = NaN THEN <<>>
  ELSE [i \in 1..Len(value) |-> StripAccentChar(value[i])]

\* _NON_ALPHA_REGEX.sub(" ", s): every char outside [A-Za-z\s] becomes a space
SubNonAlpha(s) ==
  [i \in 1..Len(s) |->
     IF s[i] \in AsciiLower \cup AsciiUpper \cup Whitespace THEN s[i] ELSE " "]

\* _NON_ALNUM_REGEX.sub(" ", s): every char outside [A-Za-z0-9\s] becomes a space
SubNonAlnum(s) ==
  [i \in 1..Len(s) |->
     IF s[i] \in AsciiLower \cup AsciiUpper \cup AsciiDigit \cup Whitespace
     THEN s[i] ELSE " "]

RECURSIVE CollapseWs(_, _)
CollapseWs(s, i) ==
  IF i > Len(s) THEN <<>>
  ELSE IF s[i] \in Whitespace
       THEN (IF i > 1 /\ s[i - 1] \in Whitespace THEN <<>> ELSE <<" ">>)
            \o CollapseWs(s, i + 1)
       ELSE <<s[i]>> \o CollapseWs(s, i + 1)

_strip_and_normalise_whitespace(value) == str_strip(CollapseWs(value, 1))

strip_accents_and_punct_name(value) ==
  str_upper(_strip_and_normalise_whitespace(SubNonAlpha(strip_accents(value))))

strip_accents_and_punct_action(value) ==
  str_upper(_strip_and_normalise_whitespace(SubNonAlnum(strip_accents(value))))

\* len([word for word in value.split(" ") if word])
_count_words(value) ==
  Cardinality({i \in 1..Len(value) :
                 value[i] # " " /\ (i = 1 \/ value[i - 1] = " ")})

is_valid_name(name) == _count_words(strip_accents_and_punct_name(name)) >= 2

EmailDomain == <<"@","n","e","o","e","n","e","r","g","i","a",".","c","o","m">>

EmailLocalChars == AsciiLower \cup AsciiDigit \cup {".", "_", "%", "+", "-"}

\* A mutated e-mail test: any domain is accepted.
IsEmailOfAnyDomain(email) ==
  LET e == str_lower(str_strip(email))
  IN  \E i \in 2..Len(e) - 1 :
        /\ e[i] = "@"
        /\ \A k \in 1..(i - 1) : e[k] \in EmailLocalChars

\* _EMAIL_REGEX.match(email.strip().lower()) with
\* ^[a-z0-9._%+-]+@neoenergia\.com$
is_valid_email(email) ==
  LET e == str_lower(str_strip(email))
      n == Len(e) - Len(EmailDomain)
  IN  /\ n >= 1
      /\ SubSeq(e, n + 1, Len(e)) = EmailDomain
      /\ \A i \in 1..n : e[i] \in EmailLocalChars

(* ------------------------------------------------------------------ *)
(* Text constants                                                      *)
(* ------------------------------------------------------------------ *)

EmptyText == <<>>

HOJE == <<"H","O","J","E">>

AMANHA == <<"A","M","A","N","H","Ã">>

FIM_DE_SEMANA == <<"F","I","M"," ","D","E"," ","S","E","M","A","N","A">>

STC == <<"S","T","C">>

EPS == <<"E","P","S">>

U1 == <<"U","1">>

U2 == <<"U","2">>

B1 == <<"B","1">>

B3 == <<"B","3">>

Z1 == <<"Z","1">>

Z2 == <<"Z","2">>

Z4 == <<"Z","4">>

Corte == <<"C","o","r","t","e">>

CorteGaviao == <<"C","o","r","t","e"," ","G","a","v","i","ã","o">>

JustOk == <<"o","k">>

NewLine == <<"\n">>

(* ------------------------------------------------------------------ *)
(* app/utils/constants.py, app/utils/time_windows.py                   *)
(* ------------------------------------------------------------------ *)

BASE_GERACAO_OPCOES == <<HOJE, AMANHA, FIM_DE_SEMANA>>

\* Times of day are seconds since midnight: dtime(10, 0) and dtime(10, 55).
MorningCutoff == 10 * 3600

SubmissionCutoff == 10 * 3600 + 55 * 60

SelectOptions(opts, after_1055) ==
  SelectSeq(opts, LAMBDA o : ~(after_1055 /\ o = HOJE))

\* A mutated window: the cutoffs are passed only after the stroke of the second.
CurrentTimeWindowLate(now) ==
  LET after_10   == now > MorningCutoff
      after_1055 == now > SubmissionCutoff
      available  == SelectOptions(BASE_GERACAO_OPCOES, after_1055)
  IN  [after_10 |-> after_10,
       after_1055 |-> after_1055,
       available_options |-> available,
       default_option |-> IF available # <<>> THEN available[1] ELSE AMANHA]

current_time_window(now) ==
  LET after_10   == now >= MorningCutoff
      after_1055 == now >= SubmissionCutoff
      available  == SelectOptions(BASE_GERACAO_OPCOES, after_1055)
  IN  [after_10 |-> after_10,
       after_1055 |-> after_1055,
       available_options |-> available,
       default_option |-> IF available # <<>> THEN available[1] ELSE AMANHA]

(* ------------------------------------------------------------------ *)
(* The DAG40 reference catalogue (app/state/data.py): rows of          *)
(* UTD, BASE, TURMA, ZONA.  B1 of U1 exists under both TURMAs.         *)
(* ------------------------------------------------------------------ *)

dag40_df ==
  << [UTD |-> U1, BASE |-> B1, TURMA |-> STC, ZONA |-> Z1],
     [UTD |-> U1, BASE |-> B1, TURMA |-> EPS, ZONA |-> Z2],
     [UTD |-> U2, BASE |-> B3, TURMA |-> EPS, ZONA |-> Z4] >>

Range(f) == {f[i] : i \in DOMAIN f}

utd_options == {r.UTD : r \in {q \in Range(dag40_df) : q.UTD # EmptyText}}

TurmaOptions == {STC, EPS}

base_options_by_utd(utd, turma) ==
  {r.BASE : r \in {q \in Range(dag40_df) :
                     q.UTD = utd /\ q.TURMA = turma /\ q.BASE # EmptyText}}

_zona_for(utd, base, turma) ==
  LET subset == SelectSeq(dag40_df, LAMBDA r :
                  r.UTD = utd /\ r.BASE = base /\ r.TURMA = turma)
  IN  IF subset # <<>> THEN subset[1].ZONA ELSE EmptyText

(* ------------------------------------------------------------------ *)
(* The request lines dataframe (session key lines_df): a sequence of   *)
(* rows; a row maps each column, and "index" (its pandas row label),   *)
(* to a value.  PACOTES holds an integer, the other columns text.      *)
(* ------------------------------------------------------------------ *)

COLUMNS_ALL == <<"UTD", "BASE", "TURMA", "GERACAO_PARA", "SERVIÇO",
                 "PACOTES", "JUSTIFICATIVA", "COMENTARIO", "ZONA">>

COLUMNS_SHOW == <<"UTD", "BASE", "TURMA", "GERACAO_PARA", "SERVIÇO",
                  "PACOTES", "JUSTIFICATIVA", "COMENTARIO">>

TextColumns == Range(COLUMNS_ALL) \ {"PACOTES"}

RowFields == Range(COLUMNS_ALL) \cup {"index"}

MkRow(idx, utd, base, turma, ger, svc, pac, just, com, zona) ==
  [c \in RowFields |->
     CASE c = "index" -> idx
       [] c = "UTD" -> utd
       [] c = "BASE" -> base
       [] c = "TURMA" -> turma
       [] c = "GERACAO_PARA" -> ger
       [] c = "SERVIÇO" -> svc
       [] c = "PACOTES" -> pac
       [] c = "JUSTIFICATIVA" -> just
       [] c = "COMENTARIO" -> com
       [] c = "ZONA" -> zona]

_empty_df == <<>>

\* the row dict built for a selected pair (also by the add-service button)
DefaultRow(utd, base, turma, geracao_default, zona) ==
  MkRow(0, utd, base, turma, geracao_default, EmptyText, 1, EmptyText, EmptyText, zona)

\* pd.concat([...], ignore_index=True) / reset_index(drop=True): labels 0..n-1
IgnoreIndex(df) == [i \in 1..Len(df) |-> [df[i] EXCEPT !["index"] = i - 1]]

\* utd_base_sel.items() flattened: the (utd, base) pairs in iteration order
RECURSIVE SelectedPairs(_)
SelectedPairs(sel) ==
  IF sel = <<>> THEN <<>>
  ELSE [i \in 1..Len(sel[1].bases) |-> [utd |-> sel[1].utd, base |-> sel[1].bases[i]]]
       \o SelectedPairs(Tail(sel))

\* f"{utd}\n{base}\n{turma_sel}"
WantedKey(utd, base, turma) == str_join(NewLine, <<utd, base, turma>>)

\* df["UTD"].astype(str) + "\n" + df["BASE"].astype(str) + "\n" + df["TURMA"].astype(str)
RowKEY(row) ==
  astype_str(row["UTD"]) \o NewLine \o astype_str(row["BASE"]) \o NewLine
    \o astype_str(row["TURMA"])

\* A mutated reconciliation: the stale rows are not pruned.
EnsureRowsNoPrune(lines, sel, turma, geracao_default) ==
  LET pairs == SelectedPairs(sel)
      missing == SelectSeq(pairs, LAMBDA p :
                   ~\E i \in 1..Len(lines) :
                      /\ lines[i]["UTD"] = p.utd
                      /\ lines[i]["BASE"] = p.base
                      /\ lines[i]["TURMA"] = turma)
      rows_to_add == [i \in 1..Len(missing) |->
                        DefaultRow(missing[i].utd, missing[i].base, turma,
                                   geracao_default,
                                   _zona_for(missing[i].utd, missing[i].base, turma))]
  IN  IF rows_to_add # <<>> THEN IgnoreIndex(lines \o rows_to_add) ELSE lines

\* A mutated reconciliation: a default row is appended for every selected
\* pair, whether or not the pair already has a row.
EnsureRowsAlwaysAdd(lines, sel, turma, geracao_default) ==
  LET pairs == SelectedPairs(sel)
      wanted_keys == {WantedKey(pairs[i].utd, pairs[i].base, turma) : i \in 1..Len(pairs)}
      rows_to_add == [i \in 1..Len(pairs) |->
                        DefaultRow(pairs[i].utd, pairs[i].base, turma,
                                   geracao_default,
                                   _zona_for(pairs[i].utd, pairs[i].base, turma))]
      kept == SelectSeq(lines, LAMBDA r : RowKEY(r) \in wanted_keys)
  IN  IF rows_to_add # <<>> THEN IgnoreIndex(kept \o rows_to_add) ELSE kept

\* A mutated reconciliation: the default rows of the pairs without a row are
\* put before the rows that are kept.
EnsureRowsDefaultsFirst(lines, sel, turma, geracao_default) ==
  LET pairs == SelectedPairs(sel)
      wanted_keys == {WantedKey(pairs[i].utd, pairs[i].base, turma) : i \in 1..Len(pairs)}
      missing == SelectSeq(pairs, LAMBDA p :
                   ~\E i \in 1..Len(lines) :
                      /\ lines[i]["UTD"] = p.utd
                      /\ lines[i]["BASE"] = p.base
                      /\ lines[i]["TURMA"] = turma)
      rows_to_add == [i \in 1..Len(missing) |->
                        DefaultRow(missing[i].utd, missing[i].base, turma,
                                   geracao_default,
                                   _zona_for(missing[i].utd, missing[i].base, turma))]
      kept == SelectSeq(lines, LAMBDA r : RowKEY(r) \in wanted_keys)
  IN  IF rows_to_add # <<>> THEN IgnoreIndex(rows_to_add \o kept) ELSE kept

\* _ensure_rows_for_selected_pairs: the new value of lines_df
_ensure_rows_for_selected_pairs(lines, sel, turma, geracao_default) ==
  LET pairs == SelectedPairs(sel)
      wanted_keys == {WantedKey(pairs[i].utd, pairs[i].base, turma) : i \in 1..Len(pairs)}
      missing == SelectSeq(pairs, LAMBDA p :
                   ~\E i \in 1..Len(lines) :
                      /\ lines[i]["UTD"] = p.utd
                      /\ lines[i]["BASE"] = p.base
                      /\ lines[i]["TURMA"] = turma)
      rows_to_add == [i \in 1..Len(missing) |->
                        DefaultRow(missing[i].utd, missing[i].base, turma,
                                   geracao_default,
                                   _zona_for(missing[i].utd, missing[i].base, turma))]
      kept == IF lines # <<>>
              THEN SelectSeq(lines, LAMBDA r : RowKEY(r) \in wanted_keys)
              ELSE lines
  IN  IF rows_to_add # <<>> THEN IgnoreIndex(kept \o rows_to_add) ELSE kept

_add_service_row_for_base(lines, utd, base, turma, zona, geracao_default) ==
  IgnoreIndex(lines \o <<DefaultRow(utd, base, turma, geracao_default, zona)>>)

_has_any_bases_selected(sel) == \E i \in 1..Len(sel) : Len(sel[i].bases) > 0

(* ------------------------------------------------------------------ *)
(* _apply_editor_changes: the data editor's on_change callback.         *)
(* ed_state = [deleted_rows |-> sequence of row positions,              *)
(*             edited_rows  |-> sequence of [row, col, val],            *)
(*             added_rows   |-> sequence of [col, val] sequences].      *)
(* A PACOTES value of the editor is <<>> (None) or <<n>> (a number).    *)
(* ------------------------------------------------------------------ *)

\* pd.to_numeric(v, errors="coerce"), .fillna(0), .astype(int) of one cell
to_numeric_int(v) == IF v = <<>> THEN 0 ELSE v[1]

CellValue(col, val) == IF col = "PACOTES" THEN to_numeric_int(val) ELSE val

\* the row pandas creates when df.at[label, col] = val enlarges the frame:
\* every other cell is missing (a missing PACOTES is coerced to 0 at the end)
EnlargedRow(label, col, val) ==
  [MkRow(label, NaN, NaN, NaN, NaN, NaN, 0, NaN, NaN, NaN)
     EXCEPT ![col] = CellValue(col, val)]

\* df.at[row_idx, col] = val: by row label, enlarging when the label is absent
DfAtSet(df, row_idx, col, val) ==
  IF \E i \in 1..Len(df) : df[i]["index"] = row_idx
  THEN [i \in 1..Len(df) |->
          IF df[i]["index"] = row_idx
          THEN [df[i] EXCEPT ![col] = CellValue(col, val)]
          ELSE df[i]]
  ELSE Append(df, EnlargedRow(row_idx, col, val))

RECURSIVE ApplyEditedRows(_, _)
ApplyEditedRows(df, edits) ==
  IF edits = <<>> THEN df
  ELSE LET e == edits[1]
       IN  ApplyEditedRows(
             IF e.col \in Range(COLUMNS_ALL) /\ e.col \in Range(COLUMNS_SHOW)
             THEN DfAtSet(df, e.row, e.col, e.val)
             ELSE df,
             Tail(edits))

RECURSIVE UpdateRow(_, _)
UpdateRow(row, items) ==
  IF items = <<>> THEN row
  ELSE UpdateRow(
         IF items[1].col \in Range(COLUMNS_ALL)
         THEN [row EXCEPT ![items[1].col] = CellValue(items[1].col, items[1].val)]
         ELSE row,
         Tail(items))

RECURSIVE ApplyAddedRows(_, _, _)
ApplyAddedRows(df, added, geracao_default) ==
  IF added = <<>> THEN df
  ELSE LET base_row == MkRow(0, EmptyText, EmptyText, EmptyText, geracao_default,
                             EmptyText, 1, EmptyText, EmptyText, EmptyText)
       IN  ApplyAddedRows(IgnoreIndex(Append(df, UpdateRow(base_row, added[1]))),
                          Tail(added), geracao_default)

\* df.drop(df.index[deleted]).reset_index(drop=True)
DropRowsOf(df, deleted) ==
  IF deleted = <<>> THEN df
  ELSE LET keep == SelectSeq([i \in 1..Len(df) |-> i],
                             LAMBDA i : (i - 1) \notin Range(deleted))
       IN  IgnoreIndex([k \in 1..Len(keep) |-> df[keep[k]]])

\* df.index[deleted] raises IndexError for a position past the end
DeletedInRange(df, deleted) == \A k \in 1..Len(deleted) : deleted[k] < Len(df)

_apply_editor_changes(lines, ed_state, geracao_default) ==
  IF ~DeletedInRange(lines, ed_state.deleted_rows)
  THEN lines
  ELSE ApplyAddedRows(
         ApplyEditedRows(DropRowsOf(lines, ed_state.deleted_rows),
                         ed_state.edited_rows),
         ed_state.added_rows, geracao_default)

(* ------------------------------------------------------------------ *)
(* _validate_and_prepare_output (1_Solicitar.py) and the store insert   *)
(* ------------------------------------------------------------------ *)

REQUIRED_COLUMNS == <<"GERACAO_PARA", "SERVIÇO", "PACOTES", "JUSTIFICATIVA">>

\* df[col].isna().any() or (df[col].astype(str).str.strip() == "").any()
ColumnHasBlank(df, col) ==
  IF col = "PACOTES" THEN FALSE
  ELSE \E i \in 1..Len(df) :
         \/ df[i][col] = NaN
         \/ str_strip(astype_str(df[i][col])) = EmptyText

\* df["GERACAO_PARA"].astype(str).str.upper().str.strip()
NormGeracao(v) == str_strip(str_upper(astype_str(v)))

\* A mutated HOJE test: the cell is compared as typed.
HasHojeAsTyped(df) == \E i \in 1..Len(df) : df[i]["GERACAO_PARA"] = HOJE

HasHoje(df) == \E i \in 1..Len(df) : NormGeracao(df[i]["GERACAO_PARA"]) = HOJE

\* A mutated PACOTES test: only negative quantities are refused.
HasNegativePacotes(df) == \E i \in 1..Len(df) : df[i]["PACOTES"] < 0

\* (pd.to_numeric(df["PACOTES"], ...).fillna(0).astype(int) < 1).any()
HasInvalidPacotes(df) == \E i \in 1..Len(df) : df[i]["PACOTES"] < 1

PayloadFields == {"TIMESTAMP", "NOME", "E-MAIL", "CADEIA", "UTD", "BASE", "TURMA",
                  "ZONA", "SERVIÇO", "SERVICO_CLEAN", "PACOTES", "JUSTIFICATIVA",
                  "COMENTARIO"}

PayloadRow(row, timestamp, nome_norm, email_norm) ==
  [c \in PayloadFields |->
     CASE c = "TIMESTAMP" -> timestamp
       [] c = "NOME" -> nome_norm
       [] c = "E-MAIL" -> email_norm
       [] c = "CADEIA" -> NormGeracao(row["GERACAO_PARA"])
       [] c = "SERVICO_CLEAN" -> strip_accents_and_punct_action(row["SERVIÇO"])
       [] OTHER -> row[c]]

BuildPayload(df, nome_input, email_input, timestamp) ==
  [i \in 1..Len(df) |->
     PayloadRow(df[i], timestamp, strip_accents_and_punct_name(nome_input),
                str_lower(str_strip(email_input)))]

FirstBlankColumn(df) ==
  LET blank == SelectSeq(REQUIRED_COLUMNS, LAMBDA c : ColumnHasBlank(df, c))
  IN  IF blank = <<>> THEN "" ELSE blank[1]

Rejected(code) == [status |-> "error", error |-> code, out |-> <<>>]

\* A mutated validator: the PACOTES test comes before the HOJE test.
ValidatePacotesFirst(df, nome_input, email_input, after_10h55, timestamp) ==
  IF ~is_valid_name(nome_input) THEN Rejected("name")
  ELSE IF ~is_valid_email(email_input) THEN Rejected("email")
  ELSE IF df = <<>> THEN Rejected("no_lines")
  ELSE IF FirstBlankColumn(df) # "" THEN Rejected(FirstBlankColumn(df))
  ELSE IF HasInvalidPacotes(df) THEN Rejected("pacotes")
  ELSE IF after_10h55 /\ HasHoje(df) THEN Rejected("hoje")
  ELSE [status |-> "ok", error |-> "",
        out |-> BuildPayload(df, nome_input, email_input, timestamp)]

\* _validate_and_prepare_output of the request page: a ValueError is the record
\* Rejected(code), code naming the check that raised (for a blank required
\* column, the column); otherwise the payload dataframe.
_validate_and_prepare_output(df, nome_input, email_input, after_10h55, timestamp) ==
  IF ~is_valid_name(nome_input) THEN Rejected("name")
  ELSE IF ~is_valid_email(email_input) THEN Rejected("email")
  ELSE IF df = <<>> THEN Rejected("no_lines")
  ELSE IF FirstBlankColumn(df) # "" THEN Rejected(FirstBlankColumn(df))
  ELSE IF after_10h55 /\ HasHoje(df) THEN Rejected("hoje")
  ELSE IF HasInvalidPacotes(df) THEN Rejected("pacotes")
  ELSE [status |-> "ok", error |-> "",
        out |-> BuildPayload(df, nome_input, email_input, timestamp)]

\* prepare_submission_dataframe of app/services/pedidos_submission.py (a helper
\* that no page calls): the same checks on the lines, none on the requester.
prepare_submission_dataframe(df, nome, email, after_1055, timestamp) ==
  IF df = <<>> THEN Rejected("no_lines")
  ELSE IF FirstBlankColumn(df) # "" THEN Rejected(FirstBlankColumn(df))
  ELSE IF after_1055 /\ HasHoje(df) THEN Rejected("hoje")
  ELSE IF HasInvalidPacotes(df) THEN Rejected("pacotes")
  ELSE [status |-> "ok", error |-> "",
        out |-> BuildPayload(df, nome, email, timestamp)]

(* ------------------------------------------------------------------ *)
(* app/repositories/pedidos_repo.py: insert_pedidos                     *)
(* A row of the table maps each table column to a value; NULL is NaN.   *)
(* ------------------------------------------------------------------ *)

StoreFields == {"TIMESTAMP", "NOME", "E-MAIL", "CADEIA", "UTD", "BASE", "TURMA",
                "ZONA", "SERVICO", "PACOTES", "NOTAS", "JUSTIFICATIVA",
                "COMENTARIOS", "STATUS", "VALIDADO_POR"}

\* (str(v).strip() or None) if pd.notna(v) else None
StripOrNone(v) ==
  IF v = NaN THEN NaN
  ELSE IF str_strip(v) = EmptyText THEN NaN ELSE str_strip(v)

\* the parameter tuple of one payload row, as the row it becomes in the table
InsertParams(row, include_turma) ==
  [c \in StoreFields |->
     CASE c \in {"TIMESTAMP", "NOME", "E-MAIL", "CADEIA", "UTD", "BASE", "ZONA"} -> row[c]
       [] c = "TURMA" -> IF include_turma THEN row["TURMA"] ELSE NaN
       [] c = "SERVICO" -> IF row["SERVICO_CLEAN"] = NaN THEN EmptyText
                           ELSE row["SERVICO_CLEAN"]
       [] c = "PACOTES" -> row["PACOTES"]
       [] c = "JUSTIFICATIVA" -> StripOrNone(row["JUSTIFICATIVA"])
       [] c = "COMENTARIOS" -> StripOrNone(row["COMENTARIO"])
       [] OTHER -> NaN]

\* insert_pedidos: the table after executemany and commit
insert_pedidos(table, df, include_turma) ==
  table \o [i \in 1..Len(df) |-> InsertParams(df[i], include_turma)]

(* ------------------------------------------------------------------ *)
(* State                                                               *)
(*   utds_sel, turma_sel  the UTD multiselect and the TURMA radio       *)
(*   utd_base_sel         session dict UTD -> selected BASEs, in order  *)
(*   lines_df             session dataframe of request lines            *)
(*   rendered             what the last page run drew: whether the      *)
(*                        editor block was drawn, and the number of     *)
(*                        lines seen by the editor and by can_send      *)
(*   store                the rows of the pedidos table, in insert order*)
(*   table_columns        the optional columns the pedidos table has    *)
(*   clock                the next TIMESTAMP (datetime.now advances)    *)
(*   flash                outcome of the latest page run                *)
(*   call, result, pc     arguments, value and progress of a function   *)
(*                        under direct check                            *)
(*   admin_index_to_key, admin_pending_changes, csv_row_selection,      *)
(*   csv_gen_state, show_csv_tools                                      *)
(*                        session state of the management page; a dict  *)
(*                        is the sequence of its [key, val] items       *)
(*   admin_notice         what the management page reports after the    *)
(*                        latest action and the run that follows it     *)
(*   csv_excluir_desmarcados  the checkbox of the CSV tools             *)
(*   full_reset_flag      session key _do_full_reset: <<>> when the key *)
(*                        is absent, else <<TRUE>> or <<FALSE>>         *)
(*   admin_sessions       the administrators flushing concurrently:     *)
(*                        per session its pending map, the changes its  *)
(*                        flush computed, and the step the flush is at  *)
(*   pedidos_cache        the st.cache_data entry of                    *)
(*                        fetch_pedidos_cached, shared by all sessions  *)
(*   authentication_status, username                                    *)
(*                        the session keys the authenticator keeps: the *)
(*                        status is <<>> for None, else <<TRUE>> or     *)
(*                        <<FALSE>>; a username None is the missing     *)
(*                        value                                         *)
(* ------------------------------------------------------------------ *)

VARIABLES utds_sel, turma_sel, utd_base_sel, lines_df, rendered, store,
          table_columns, clock, flash, call, result, pc,
          admin_index_to_key, admin_pending_changes, csv_row_selection,
          csv_gen_state, show_csv_tools,
          admin_notice, csv_excluir_desmarcados, full_reset_flag,
          admin_sessions, pedidos_cache, authentication_status, username

vars == <<utds_sel, turma_sel, utd_base_sel, lines_df, rendered, store,
          table_columns, clock, flash, call, result, pc,
          admin_index_to_key, admin_pending_changes, csv_row_selection,
          csv_gen_state, show_csv_tools,
          admin_notice, csv_excluir_desmarcados, full_reset_flag,
          admin_sessions, pedidos_cache, authentication_status, username>>

pageVars == <<utds_sel, turma_sel, utd_base_sel, lines_df, rendered, store,
              table_columns, clock, flash>>

fnVars == <<call, result, pc>>

adminVars == <<admin_index_to_key, admin_pending_changes, csv_row_selection,
               csv_gen_state, show_csv_tools>>

authVars == <<authentication_status, username>>

auxVars == <<admin_notice, csv_excluir_desmarcados, full_reset_flag,
             admin_sessions, pedidos_cache, authVars>>

\* the variables no action of the management page changes
adminFrame == <<csv_excluir_desmarcados, full_reset_flag, admin_sessions, pedidos_cache,
                authVars>>

OptionalColumns == {"TURMA", "STATUS", "VALIDADO_POR"}

\* the table as deployed, and the older table without the optional columns
TableShapes == {OptionalColumns, {}}

\* a fresh session: no widget touched, empty table
SessionInit ==
  /\ utds_sel = <<>>
  /\ turma_sel = STC
  /\ utd_base_sel = <<>>
  /\ lines_df = _empty_df
  /\ rendered = [editor |-> FALSE, rows |-> 0]
  /\ store = <<>>
  /\ clock = 1
  /\ flash = "none"

FnIdle == call = <<>> /\ result = <<>> /\ pc = "page"

\* a session that has opened no page, and a cold data cache
AuxInit ==
  /\ admin_notice = "none"
  /\ csv_excluir_desmarcados = TRUE
  /\ full_reset_flag = <<>>
  /\ admin_sessions = <<>>
  /\ pedidos_cache = <<>>
  /\ authentication_status = <<>>
  /\ username = NaN

\* _ensure_admin_state of a session that has not opened the management page
AdminInit ==
  /\ AuxInit
  /\ admin_index_to_key = <<>>
  /\ admin_pending_changes = <<>>
  /\ csv_row_selection = <<>>
  /\ csv_gen_state = <<>>
  /\ show_csv_tools = FALSE

SeqsUpTo(S, n) == UNION {[1..k -> S] : k \in 0..n}

\* sequences without repetition over the set S
OrderedSubsets(S) ==
  {q \in SeqsUpTo(S, Cardinality(S)) : \A i, j \in 1..Len(q) : i # j => q[i] # q[j]}

(* ------------------------------------------------------------------ *)
(* SpecSync: _ensure_rows_for_selected_pairs applied to arbitrary       *)
(* lines, selection and TURMA, then applied again to its own output.    *)
(* ------------------------------------------------------------------ *)

MaxSyncLines == 2

\* rows the function may meet, among them rows of unselected pairs, rows of
\* the other TURMA, a row with a missing UTD, and rows with edited cells
SyncRowPool ==
  {MkRow(0, u, b, t, AMANHA, s, 1, EmptyText, EmptyText, EmptyText) :
     u \in {U1, U2, NaN}, b \in {B1, B3}, t \in TurmaOptions, s \in {EmptyText, Corte}}

AllBases(utd) == {r.BASE : r \in {q \in Range(dag40_df) : q.UTD = utd}}

\* every shape utd_base_sel can take over the catalogue
SelectionPool ==
  UNION {
    {[i \in 1..Len(us) |-> [utd |-> us[i], bases |-> f[us[i]]]] :
       f \in [Range(us) -> UNION {OrderedSubsets(AllBases(u)) : u \in Range(us)}]}
    : us \in OrderedSubsets(utd_options)}

WellFormedSelection(sel) ==
  \A i \in 1..Len(sel) : Range(sel[i].bases) \subseteq AllBases(sel[i].utd)

InitSync ==
  /\ SessionInit
  /\ AdminInit
  /\ table_columns = OptionalColumns
  /\ pc = "input"
  /\ result = <<>>
  /\ \E lines \in SeqsUpTo(SyncRowPool, MaxSyncLines),
        sel \in {s \in SelectionPool : WellFormedSelection(s)},
        turma \in TurmaOptions,
        gd \in {HOJE, AMANHA} :
       call = [lines |-> IgnoreIndex(lines), sel |-> sel, turma |-> turma,
               geracao_default |-> gd]

SyncOnce ==
  /\ pc = "input"
  /\ result' = <<_ensure_rows_for_selected_pairs(
                   call.lines, call.sel, call.turma, call.geracao_default)>>
  /\ pc' = "once"
  /\ UNCHANGED <<call, pageVars, adminVars, auxVars>>

SyncTwice ==
  /\ pc = "once"
  /\ result' = Append(result, _ensure_rows_for_selected_pairs(
                   result[1], call.sel, call.turma, call.geracao_default))
  /\ pc' = "twice"
  /\ UNCHANGED <<call, pageVars, adminVars, auxVars>>

NextSync == SyncOnce \/ SyncTwice

SpecSync == InitSync /\ [][NextSync]_vars

\* (UTD, BASE) of a row is a selected pair
PairSelected(row, sel) ==
  \E i \in 1..Len(sel) :
     /\ row["UTD"] = sel[i].utd
     /\ \E j \in 1..Len(sel[i].bases) : row["BASE"] = sel[i].bases[j]

\* C2: right after the reconciliation ran with selection S and TURMA T, every
\* pair of S has at least one line with that UTD, BASE and TURMA T, and no
\* line has a (UTD, BASE, TURMA) outside S x {T}, whatever the lines were.
C2_SyncCoversExactlySelection ==
  pc \in {"once", "twice"} =>
    LET out == result[Len(result)]
    IN  /\ \A i \in 1..Len(call.sel) : \A j \in 1..Len(call.sel[i].bases) :
             \E k \in 1..Len(out) :
                /\ out[k]["UTD"] = call.sel[i].utd
                /\ out[k]["BASE"] = call.sel[i].bases[j]
                /\ out[k]["TURMA"] = call.turma
        /\ \A k \in 1..Len(out) :
             /\ PairSelected(out[k], call.sel)
             /\ out[k]["TURMA"] = call.turma

\* a call that kept a line, pruned a line and created a line
C2_Witness ==
  /\ pc = "once"
  /\ \E k \in 1..Len(call.lines) : ~PairSelected(call.lines[k], call.sel)
  /\ \E k \in 1..Len(call.lines) :
       /\ PairSelected(call.lines[k], call.sel)
       /\ call.lines[k]["TURMA"] = call.turma
       /\ call.lines[k]["SERVIÇO"] = Corte
  /\ \E k \in 1..Len(result[1]) : result[1][k]["SERVIÇO"] = Corte
  /\ \E k \in 1..Len(result[1]) : result[1][k]["SERVIÇO"] = EmptyText

\* C3: a second reconciliation with the same selection, TURMA and default
\* target, and no edit in between, returns exactly the first one's lines.
C3_SyncIdempotent == pc = "twice" => result[2] = result[1]

\* a second run after a first run that both pruned and created lines
C3_Witness ==
  /\ pc = "twice"
  /\ Len(result[1]) >= 2
  /\ result[1] # call.lines
  /\ \E k \in 1..Len(call.lines) : ~PairSelected(call.lines[k], call.sel)
  /\ \E k \in 1..Len(call.lines) : call.lines[k] \in Range(result[2])

(* ------------------------------------------------------------------ *)
(* SpecValidate: the submission validation applied to arbitrary lines,  *)
(* requester and cutoff flag: the page's _validate_and_prepare_output   *)
(* and the service helper prepare_submission_dataframe.                 *)
(* ------------------------------------------------------------------ *)

MaxPayloadLines == 2

HojeLoose == <<" ","h","o","j","e">>

BlankText == <<" ">>

NameOk == <<"A","n","a"," ","S","ã">>

NameOneWord == <<"A","n","a","-","7">>

EmailOk == <<" ","A",".","b">> \o EmailDomain

EmailOtherDomain == <<"a","@","x",".","c","o","m">>

EmailSuffix == <<"a">> \o EmailDomain \o <<".","b","r">>

ValidateRowPool ==
  {MkRow(0, U1, B1, STC, g, s, n, j, EmptyText, Z1) :
     g \in {HOJE, HojeLoose, AMANHA, EmptyText},
     s \in {Corte, BlankText},
     n \in {0, 1},
     j \in {JustOk, NaN}}

InitValidate ==
  /\ SessionInit
  /\ AdminInit
  /\ table_columns = OptionalColumns
  /\ pc = "input"
  /\ result = <<>>
  /\ \E lines \in SeqsUpTo(ValidateRowPool, MaxPayloadLines),
        nome \in {NameOk, NameOneWord, BlankText},
        email \in {EmailOk, EmailOtherDomain, EmailSuffix},
        after \in BOOLEAN :
       call = [lines |-> IgnoreIndex(lines), nome |-> nome, email |-> email,
               after_10h55 |-> after, timestamp |-> 1]

ValidatePage ==
  /\ pc = "input"
  /\ result' = _validate_and_prepare_output(
                 call.lines, call.nome, call.email, call.after_10h55, call.timestamp)
  /\ pc' = "page"
  /\ UNCHANGED <<call, pageVars, adminVars, auxVars>>

PrepareService ==
  /\ pc = "input"
  /\ result' = prepare_submission_dataframe(
                 call.lines, call.nome, call.email, call.after_10h55, call.timestamp)
  /\ pc' = "service"
  /\ UNCHANGED <<call, pageVars, adminVars, auxVars>>

\* validate_requester of app/components/forms.py (no page calls it): raises
\* for an invalid name or e-mail, returns nothing otherwise
validate_requester(nome, email) ==
  IF ~is_valid_name(nome) THEN Rejected("name")
  ELSE IF ~is_valid_email(email) THEN Rejected("email")
  ELSE [status |-> "ok", error |-> "", out |-> <<>>]

ValidateRequester ==
  /\ pc = "input"
  /\ result' = validate_requester(call.nome, call.email)
  /\ pc' = "requester"
  /\ UNCHANGED <<call, pageVars, adminVars, auxVars>>

NextValidate == ValidatePage \/ PrepareService \/ ValidateRequester

SpecValidate == InitValidate /\ [][NextValidate]_vars

\* the text of a cell after trimming and upper-casing
TrimmedUpper(v) == str_strip(str_upper(astype_str(v)))

NonBlank(v) == v # NaN /\ str_strip(v) # EmptyText

\* C4: a submission validated with the cutoff flag set is rejected if any line
\* has GERACAO_PARA equal to HOJE after trimming and upper-casing; no payload
\* built with the flag set has a row with CADEIA = HOJE.
C4_NoHojeAfterCutoff ==
  (pc \in {"page", "service"} /\ call.after_10h55) =>
    /\ (\E i \in 1..Len(call.lines) :
          TrimmedUpper(call.lines[i]["GERACAO_PARA"]) = HOJE)
         => (result.status = "error" /\ result.out = <<>>)
    /\ \A k \in 1..Len(result.out) : result.out[k]["CADEIA"] # HOJE

\* after the cutoff, lines valid but for a loosely typed " hoje" are refused
C4_Witness ==
  /\ pc = "page"
  /\ call.after_10h55
  /\ result.error = "hoje"
  /\ \E i \in 1..Len(call.lines) : call.lines[i]["GERACAO_PARA"] = HojeLoose
  /\ \A i \in 1..Len(call.lines) : call.lines[i]["GERACAO_PARA"] # HOJE

Violates(check) ==
  CASE check = "no_lines" -> call.lines = <<>>
    [] check = "name" -> _count_words(strip_accents_and_punct_name(call.nome)) < 2
    [] check = "email" -> ~is_valid_email(call.email)
    [] check = "blank" -> \E c \in Range(REQUIRED_COLUMNS) : ColumnHasBlank(call.lines, c)
    [] check = "hoje" -> call.after_10h55 /\
                         \E i \in 1..Len(call.lines) :
                            TrimmedUpper(call.lines[i]["GERACAO_PARA"]) = HOJE
    [] check = "pacotes" -> \E i \in 1..Len(call.lines) : call.lines[i]["PACOTES"] < 1

\* the check an error belongs to
ErrorCheck(r) == IF r.error \in Range(REQUIRED_COLUMNS) THEN "blank" ELSE r.error

\* the outcome is the error of the first violated check of order, or a payload
ReportsFirstOf(order) ==
  LET violated == SelectSeq(order, LAMBDA c : Violates(c))
  IN  IF violated = <<>>
      THEN result.status = "ok"
      ELSE result.status = "error" /\ ErrorCheck(result) = violated[1]

\* C5, as stated: validation checks, in this order, lines non-empty, name,
\* e-mail, required fields, HOJE after the cutoff, PACOTES >= 1, and reports
\* the earliest violated check.
C5_OrderAsStated ==
  pc = "page" =>
    ReportsFirstOf(<<"no_lines", "name", "email", "blank", "hoje", "pacotes">>)

\* C5, amended: the page checks name, e-mail, lines non-empty, required fields
\* (GERACAO_PARA, SERVIÇO, PACOTES, JUSTIFICATIVA in that order), HOJE after the
\* cutoff, PACOTES >= 1, and reports the earliest violated check; the service
\* helper checks lines non-empty, required fields, HOJE, PACOTES in that order.
C5_OrderInCode ==
  /\ pc = "page" =>
       /\ ReportsFirstOf(<<"name", "email", "no_lines", "blank", "hoje", "pacotes">>)
       /\ ErrorCheck(result) = "blank" =>
            /\ ColumnHasBlank(call.lines, result.error)
            /\ \A k \in 1..Len(REQUIRED_COLUMNS) :
                 ColumnHasBlank(call.lines, REQUIRED_COLUMNS[k]) =>
                   \E m \in 1..k : REQUIRED_COLUMNS[m] = result.error
  /\ pc = "service" =>
       ReportsFirstOf(<<"no_lines", "blank", "hoje", "pacotes">>)

\* no lines and an invalid name and e-mail at once: the name is reported
C5_Witness ==
  /\ pc = "page"
  /\ call.lines = <<>>
  /\ Violates("name")
  /\ Violates("email")
  /\ result.error = "name"

\* the normalised address ends with the corporate domain
CorporateAddress(email) ==
  LET e == str_lower(str_strip(email))
  IN  /\ Len(e) > Len(EmailDomain)
      /\ SubSeq(e, Len(e) - Len(EmailDomain) + 1, Len(e)) = EmailDomain

RowComplete(row, ger) ==
  /\ NonBlank(row[ger])
  /\ NonBlank(row["SERVIÇO"])
  /\ NonBlank(row["JUSTIFICATIVA"])
  /\ row["PACOTES"] \in Int
  /\ row["PACOTES"] >= 1

\* C7: every row of an accepted payload has non-blank GERACAO_PARA (its
\* CADEIA), SERVIÇO and JUSTIFICATIVA after trimming and an integer
\* PACOTES >= 1; a line set with a row violating one of these is rejected.
C7_PayloadRowsComplete ==
  pc \in {"page", "service"} =>
    /\ \A k \in 1..Len(result.out) : RowComplete(result.out[k], "CADEIA")
    /\ (\E i \in 1..Len(call.lines) : ~RowComplete(call.lines[i], "GERACAO_PARA"))
         => (result.status = "error" /\ result.out = <<>>)
    /\ result.status = "ok" => Len(result.out) = Len(call.lines)

\* an accepted payload of two rows
C7_Witness ==
  /\ pc = "page"
  /\ result.status = "ok"
  /\ Len(result.out) = 2
  /\ result.out[1]["SERVICO_CLEAN"] = <<"C","O","R","T","E">>

(* ------------------------------------------------------------------ *)
(* The request page (app/pages/1_Solicitar.py).  Each action is one     *)
(* user event followed by the page run it triggers.                     *)
(* ------------------------------------------------------------------ *)

MaxLines == 2

MaxSubmits == 1

\* times of day at which a page run may happen: before and after 10:55
PageTimes == {SubmissionCutoff - 1, SubmissionCutoff}

Filter(q, S) == SelectSeq(q, LAMBDA x : x \in S)

\* lines 136-168: utd_base_sel after the widgets are read; widget gives, for a
\* UTD already drawn, the BASEs its multiselect holds
NextBaseSel(widget, utds, turma) ==
  LET kept == SelectSeq(widget, LAMBDA e : e.utd \in Range(utds))
      new  == SelectSeq(utds, LAMBDA u : ~\E i \in 1..Len(kept) : kept[i].utd = u)
  IN  IF utds = <<>> THEN <<>>
      ELSE [i \in 1..Len(kept) |->
              [utd |-> kept[i].utd,
               bases |-> Filter(kept[i].bases, base_options_by_utd(kept[i].utd, turma))]]
           \o [i \in 1..Len(new) |-> [utd |-> new[i], bases |-> <<>>]]

\* line 234: the guard of the editor block
EditorBlock(utds, sel) == utds # <<>> /\ _has_any_bases_selected(sel)

\* lines 234-235: lines_df once the page run has passed the reconciliation
LinesAfterSync(lines, utds, sel, turma, now) ==
  IF EditorBlock(utds, sel)
  THEN _ensure_rows_for_selected_pairs(lines, sel, turma,
                                       current_time_window(now).default_option)
  ELSE lines

Toggle(q, x) == IF x \in Range(q) THEN SelectSeq(q, LAMBDA y : y # x) ELSE Append(q, x)

\* what a page run that ends without a submission leaves in the session
RunFrame(utds, turma, sel, lines) ==
  /\ utds_sel' = utds
  /\ turma_sel' = turma
  /\ utd_base_sel' = sel
  /\ lines_df' = lines
  /\ rendered' = [editor |-> EditorBlock(utds, sel), rows |-> Len(lines)]
  /\ flash' = "none"

\* a page run that ends without a submission
FinishRun(utds, turma, sel, lines) ==
  /\ RunFrame(utds, turma, sel, lines)
  /\ UNCHANGED <<store, table_columns, clock, fnVars, adminVars, auxVars>>

ToggleUtd(u, now) ==
  /\ u \in utd_options
  /\ LET utds == Toggle(utds_sel, u)
         sel  == NextBaseSel(utd_base_sel, utds, turma_sel)
     IN  FinishRun(utds, turma_sel, sel,
                   LinesAfterSync(lines_df, utds, sel, turma_sel, now))

SetTurma(t, now) ==
  /\ utds_sel # <<>>
  /\ t # turma_sel
  /\ LET sel == NextBaseSel(utd_base_sel, utds_sel, t)
     IN  FinishRun(utds_sel, t, sel, LinesAfterSync(lines_df, utds_sel, sel, t, now))

ToggleBase(u, b, now) ==
  /\ u \in Range(utds_sel)
  /\ b \in base_options_by_utd(u, turma_sel)
  /\ LET widget == [i \in 1..Len(utd_base_sel) |->
                      IF utd_base_sel[i].utd = u
                      THEN [utd_base_sel[i] EXCEPT !.bases = Toggle(@, b)]
                      ELSE utd_base_sel[i]]
         sel == NextBaseSel(widget, utds_sel, turma_sel)
     IN  FinishRun(utds_sel, turma_sel, sel,
                   LinesAfterSync(lines_df, utds_sel, sel, turma_sel, now))

\* the add-service button of a selected pair (lines 243-248)
AddServiceRow(u, b, now) ==
  /\ rendered.editor
  /\ [utd |-> u, base |-> b] \in Range(SelectedPairs(utd_base_sel))
  /\ Len(lines_df) < MaxLines
  /\ LET sel == NextBaseSel(utd_base_sel, utds_sel, turma_sel)
         synced == LinesAfterSync(lines_df, utds_sel, sel, turma_sel, now)
     IN  /\ EditorBlock(utds_sel, sel)
         /\ FinishRun(utds_sel, turma_sel, sel,
                      _add_service_row_for_base(
                        synced, u, b, turma_sel, _zona_for(u, b, turma_sel),
                        current_time_window(now).default_option))

\* what one change of the data editor reports, the editor showing n rows
EditCells ==
  {[col |-> "SERVIÇO", val |-> Corte],
   [col |-> "JUSTIFICATIVA", val |-> JustOk]}

\* one deletion, one edited cell, one added row, or a deletion together with
\* an edited cell of another row
EditorEvents(n) ==
  LET positions == 0..(n - 1)
      edits == {[row |-> r, col |-> c.col, val |-> c.val] :
                  r \in positions, c \in EditCells}
      one(d, e, a) == [deleted_rows |-> d, edited_rows |-> e, added_rows |-> a]
  IN  {one(<<p>>, <<>>, <<>>) : p \in positions}
      \cup {one(<<>>, <<e>>, <<>>) : e \in edits}
      \cup {one(<<>>, <<>>, <<a>>) :
              a \in {<<>>, <<[col |-> "SERVIÇO", val |-> Corte]>>}}
      \cup {one(<<x[1]>>, <<x[2]>>, <<>>) :
              x \in {y \in positions \X edits : y[2].row # y[1]}}

\* a change in the data editor: the on_change callback (created by the run
\* that drew the editor, at time drawn), then the page run
GridEdit(ed_state, drawn, now) ==
  /\ rendered.editor
  /\ LET edited == _apply_editor_changes(
                     lines_df, ed_state, current_time_window(drawn).default_option)
         sel == NextBaseSel(utd_base_sel, utds_sel, turma_sel)
         lines == LinesAfterSync(edited, utds_sel, sel, turma_sel, now)
     IN  /\ Len(edited) <= MaxLines
         /\ FinishRun(utds_sel, turma_sel, sel, lines)

\* a page run with no widget changed (typing in a text input, a dialog closed)
Rerun(now) ==
  /\ now \in PageTimes
  /\ LET sel == NextBaseSel(utd_base_sel, utds_sel, turma_sel)
     IN  FinishRun(utds_sel, turma_sel, sel,
                   LinesAfterSync(lines_df, utds_sel, sel, turma_sel, now))

\* has_column of app/services/pedidos_service.py
has_column(column) == column \in table_columns

\* A mutated outcome: the lines are cleared whatever the outcome.
LinesClearedAlways(status, lines) == _empty_df

\* A mutated outcome: the lines are kept whatever the outcome.
LinesKeptAlways(status, lines) == lines

\* lines 382 and 385-386: lines_df is emptied by a submission that went
\* through, and left as it is when validation or the insert raised
LinesAfterSubmit(status, lines) == IF status = "ok" THEN _empty_df ELSE lines

\* the message of the run: the success dialog, st.error for a ValueError of
\* the validation, st.error for an exception of the insert
Outcome(out, db_ok) ==
  IF out.status = "error" THEN "rejected"
  ELSE IF db_ok THEN "ok" ELSE "db_error"

\* the Enviar button (lines 358-386), enabled by the can_send of the last run;
\* db_ok: the insert does not raise (it is not reached, and taken as TRUE, when
\* the validation raises)
Enviar(nome_input, email_input, now, db_ok) ==
  /\ rendered.rows > 0
  /\ strip_accents_and_punct_name(nome_input) # EmptyText
  /\ str_strip(email_input) # EmptyText
  /\ \E synced \in {LinesAfterSync(lines_df, utds_sel, utd_base_sel, turma_sel, now)} :
     \E out \in {_validate_and_prepare_output(
                   synced, nome_input, email_input,
                   current_time_window(now).after_1055, clock)} :
       /\ Outcome(out, db_ok) = "ok" => clock <= MaxSubmits
       /\ out.status = "error" => db_ok
       /\ utds_sel' = utds_sel
       /\ turma_sel' = turma_sel
       /\ utd_base_sel' = NextBaseSel(utd_base_sel, utds_sel, turma_sel)
       /\ rendered' = [editor |-> EditorBlock(utds_sel, utd_base_sel),
                       rows |-> Len(synced)]
       /\ lines_df' = LinesAfterSubmit(Outcome(out, db_ok), synced)
       /\ flash' = Outcome(out, db_ok)
       /\ store' = IF Outcome(out, db_ok) = "ok"
                   THEN insert_pedidos(store, out.out, has_column("TURMA"))
                   ELSE store
       /\ clock' = IF Outcome(out, db_ok) = "ok" THEN clock + 1 ELSE clock
       /\ UNCHANGED <<table_columns, fnVars, adminVars, auxVars>>

(* ------------------------------------------------------------------ *)
(* SpecLines: the request page under selection changes, TURMA changes,  *)
(* add-service clicks and grid edits.                                   *)
(* ------------------------------------------------------------------ *)

(* ------------------------------------------------------------------ *)
(* app/state/session.py: the full reset. A session is the value list of *)
(* its key _do_full_reset (empty when the key is absent) and the rest   *)
(* of its keys.                                                         *)
(* ------------------------------------------------------------------ *)

\* st.session_state.get(FULL_RESET_FLAG, False)
FlagSet(session) == session.flag = <<TRUE>>

\* A mutated handler: the session is cleared and the flag is left as it was.
HandleResetKeepsFlag(session) ==
  IF FlagSet(session)
  THEN [state |-> [flag |-> session.flag, rest |-> <<>>], reruns |-> 1]
  ELSE [state |-> session, reruns |-> 0]

\* handle_full_reset: the session it leaves and the number of st.rerun() calls
handle_full_reset(session) ==
  IF FlagSet(session)
  THEN [state |-> [flag |-> <<FALSE>>, rest |-> <<>>], reruns |-> 1]
  ELSE [state |-> session, reruns |-> 0]

trigger_full_reset(session) == [session EXCEPT !.flag = <<TRUE>>]

\* the buttons "Limpar Tudo" (lines 388-390) and, in the dialog of a
\* submission that went through, "Fazer outro pedido" (lines 85-87):
\* trigger_full_reset and st.rerun(); the page run that follows does not
\* read the flag
LimparTudo(now) ==
  /\ now \in PageTimes
  /\ full_reset_flag' = trigger_full_reset([flag |-> full_reset_flag, rest |-> <<>>]).flag
  /\ LET sel == NextBaseSel(utd_base_sel, utds_sel, turma_sel)
     IN  RunFrame(utds_sel, turma_sel, sel,
                  LinesAfterSync(lines_df, utds_sel, sel, turma_sel, now))
  /\ UNCHANGED <<store, table_columns, clock, fnVars, adminVars, admin_notice,
                 csv_excluir_desmarcados, admin_sessions, pedidos_cache, authVars>>

\* the keys of the session other than the flag
SessionRest ==
  <<utds_sel, turma_sel, utd_base_sel, lines_df, rendered, flash,
    admin_index_to_key, admin_pending_changes, csv_row_selection, csv_gen_state,
    show_csv_tools, admin_notice, csv_excluir_desmarcados, authentication_status,
    username>>

\* a run of the main script (Home.py line 26, app.py line 15): the only place
\* where handle_full_reset is called
VisitHome ==
  LET r == handle_full_reset([flag |-> full_reset_flag, rest |-> SessionRest])
  IN  /\ full_reset_flag' = r.state.flag
      /\ IF r.state.rest = <<>>
         THEN /\ utds_sel' = <<>>
              /\ turma_sel' = STC
              /\ utd_base_sel' = <<>>
              /\ lines_df' = _empty_df
              /\ rendered' = [editor |-> FALSE, rows |-> 0]
              /\ flash' = "none"
              /\ admin_index_to_key' = <<>>
              /\ admin_pending_changes' = <<>>
              /\ csv_row_selection' = <<>>
              /\ csv_gen_state' = <<>>
              /\ show_csv_tools' = FALSE
              /\ admin_notice' = "none"
              /\ csv_excluir_desmarcados' = TRUE
              /\ authentication_status' = <<>>
              /\ username' = NaN
         ELSE UNCHANGED SessionRest
      /\ UNCHANGED <<store, table_columns, clock, fnVars, admin_sessions, pedidos_cache>>

InitLines == SessionInit /\ AdminInit /\ table_columns = OptionalColumns /\ FnIdle

NextLines ==
  \/ \E u \in utd_options, now \in PageTimes : ToggleUtd(u, now)
  \/ \E t \in TurmaOptions, now \in PageTimes : SetTurma(t, now)
  \/ \E u \in utd_options : \E b \in AllBases(u), now \in PageTimes : ToggleBase(u, b, now)
  \/ \E u \in utd_options : \E b \in AllBases(u), now \in PageTimes : AddServiceRow(u, b, now)
  \/ \E ev \in EditorEvents(rendered.rows), drawn \in PageTimes, now \in PageTimes :
        GridEdit(ev, drawn, now)
  \/ \E now \in PageTimes : LimparTudo(now)
  \/ VisitHome

SpecLines == InitLines /\ [][NextLines]_vars

\* C1: once a page run has finished, every request line has a (UTD, BASE) pair
\* that is currently selected and the current TURMA, and every selected pair
\* has at least one line.
C1_LinesMatchSelection ==
  /\ \A k \in 1..Len(lines_df) :
       /\ PairSelected(lines_df[k], utd_base_sel)
       /\ lines_df[k]["TURMA"] = turma_sel
  /\ \A i \in 1..Len(utd_base_sel) : \A j \in 1..Len(utd_base_sel[i].bases) :
       \E k \in 1..Len(lines_df) :
          /\ lines_df[k]["UTD"] = utd_base_sel[i].utd
          /\ lines_df[k]["BASE"] = utd_base_sel[i].bases[j]
          /\ lines_df[k]["TURMA"] = turma_sel

(* ------------------------------------------------------------------ *)
(* Spec: the request page with submissions.                             *)
(* ------------------------------------------------------------------ *)

\* what the requester may have typed when Enviar is pressed
Requesters ==
  {[nome |-> NameOk, email |-> EmailOk],
   [nome |-> NameOneWord, email |-> EmailOk],
   [nome |-> NameOk, email |-> EmailOtherDomain]}

Init == SessionInit /\ AdminInit /\ table_columns = OptionalColumns /\ FnIdle

\* the selection and the lines are worked on before 10:55; Enviar is pressed
\* before or after it
EditTimes == {SubmissionCutoff - 1}

Next ==
  \/ \E u \in utd_options, now \in EditTimes : ToggleUtd(u, now)
  \/ \E t \in TurmaOptions, now \in EditTimes : SetTurma(t, now)
  \/ \E u \in utd_options : \E b \in AllBases(u), now \in EditTimes : ToggleBase(u, b, now)
  \/ \E u \in utd_options : \E b \in AllBases(u), now \in EditTimes : AddServiceRow(u, b, now)
  \/ \E ev \in EditorEvents(rendered.rows), drawn \in EditTimes, now \in EditTimes :
        GridEdit(ev, drawn, now)
  \/ \E now \in EditTimes : Rerun(now)
  \/ \E who \in Requesters, now \in PageTimes, db_ok \in BOOLEAN :
        Enviar(who.nome, who.email, now, db_ok)

Spec == Init /\ [][Next]_vars

\* C8, as stated: when pressing Enviar ends in a validation error, nothing is
\* inserted and the request lines and the selection are exactly what they were
\* before the click.
C8_RejectedChangesNothing ==
  [][flash' = "rejected" =>
       /\ store' = store
       /\ lines_df' = lines_df
       /\ utds_sel' = utds_sel
       /\ turma_sel' = turma_sel
       /\ utd_base_sel' = utd_base_sel]_vars

\* C8, amended: when pressing Enviar ends in a validation error, nothing is
\* inserted, the selection is what it was before the click, and the lines are
\* those the page run's reconciliation with the selection yields from the lines
\* before the click; they differ from the lines before the click only when the
\* click follows a submission that went through and emptied them.
C8_RejectedKeepsSyncedState ==
  [][flash' = "rejected" =>
       /\ store' = store
       /\ utds_sel' = utds_sel
       /\ turma_sel' = turma_sel
       /\ utd_base_sel' = utd_base_sel
       /\ \E now \in PageTimes :
            lines_df' = LinesAfterSync(lines_df, utds_sel, utd_base_sel, turma_sel, now)
       /\ lines_df' # lines_df => (lines_df = _empty_df /\ flash = "ok")]_vars

\* a click rejected after an earlier submission went through
C8_Witness ==
  /\ flash = "rejected"
  /\ store # <<>>
  /\ lines_df # _empty_df

NaturalKey(row) ==
  <<row["TIMESTAMP"], row["NOME"], row["E-MAIL"], row["UTD"], row["BASE"],
    row["SERVICO"], row["PACOTES"]>>

\* C9: no two distinct persisted rows have the same natural key (TIMESTAMP,
\* NOME, E-MAIL, UTD, BASE, SERVICO, PACOTES), be they of different batches or
\* of one batch.
C9_NoTwoRowsShareKey ==
  \A i, j \in 1..Len(store) : i # j => NaturalKey(store[i]) # NaturalKey(store[j])

(* ------------------------------------------------------------------ *)
(* The management page (app/pages/3_Gestao.py) and what it calls.       *)
(* ------------------------------------------------------------------ *)

EM_ANALISE == <<"E","M"," ","A","N","A","L","I","S","E">>

APROVADO == <<"A","P","R","O","V","A","D","O">>

RECUSADO == <<"R","E","C","U","S","A","D","O">>

\* the labels of STATUS_LABEL_MAP, written without their leading emoji
LabelPendente == "Pendente"

LabelAprovado == "Aprovado"

LabelRecusado == "Recusado"

\* STATUS_LABEL_INV.get(label, Status.EM_ANALISE)
STATUS_LABEL_INV(label) ==
  CASE label = LabelAprovado -> APROVADO
    [] label = LabelRecusado -> RECUSADO
    [] OTHER -> EM_ANALISE

PyNone == <<"N","o","n","e">>

\* the columns whose cells are numbers; the cells of the others are texts or
\* missing
NumericColumns == {"TIMESTAMP", "PACOTES", "TS"}

\* str(v) of a text cell: a missing value prints as None
py_str(v) == IF v = NaN THEN PyNone ELSE v

\* dict.get(k, default) and d[k] = v on a dict kept as its sequence of items
DictGet(d, k, default) ==
  IF \E i \in 1..Len(d) : d[i].key = k
  THEN d[CHOOSE i \in 1..Len(d) : d[i].key = k].val
  ELSE default

DictSet(d, k, v) ==
  IF \E i \in 1..Len(d) : d[i].key = k
  THEN [i \in 1..Len(d) |-> IF d[i].key = k THEN [key |-> k, val |-> v] ELSE d[i]]
  ELSE Append(d, [key |-> k, val |-> v])

\* build_row_key_from_series (app/models/pedido.py); row.get(c, "") of a frame
\* without the column c is ""
RowGet(row, c) == IF c \in DOMAIN row THEN row[c] ELSE EmptyText

build_row_key_from_series(row) ==
  LET pacotes_raw == IF "PACOTES" \in DOMAIN row THEN row["PACOTES"] ELSE 0
      pacotes_int == pacotes_raw
      timestamp == IF "TIMESTAMP" \in DOMAIN row THEN str_int(row["TIMESTAMP"])
                   ELSE EmptyText
  IN  str_join(NewLine,
        <<timestamp, py_str(RowGet(row, "NOME")),
          py_str(RowGet(row, "E-MAIL")), py_str(RowGet(row, "UTD")),
          py_str(RowGet(row, "BASE")), py_str(RowGet(row, "SERVICO")),
          str_int(pacotes_int)>>)

CachedFields == StoreFields \ {"NOTAS"}

\* fetch_pedidos and fetch_pedidos_cached: the rows in TIMESTAMP order, PACOTES
\* an integer, the optional columns the table lacks filled in
fetch_pedidos_cached(table) ==
  [i \in 1..Len(table) |->
     [c \in CachedFields |->
        CASE c = "PACOTES" -> table[i][c]
          [] c = "STATUS" ->
               IF has_column("STATUS") THEN table[i][c] ELSE EM_ANALISE
          [] c \in {"TURMA", "VALIDADO_POR"} ->
               IF has_column(c) THEN table[i][c] ELSE EmptyText
          [] OTHER -> table[i][c]]]

\* df["STATUS"].fillna("").astype(str).str.upper().str.strip(), blank-like
\* values replaced by EM ANALISE
StatusNorm(v) ==
  LET n == IF v = NaN THEN EmptyText ELSE str_strip(str_upper(v))
  IN  IF n \in {EmptyText, <<"N","A","N">>, <<"N","O","N","E">>, <<"N","U","L","L">>}
      THEN EM_ANALISE ELSE n

\* _load_admin_df: the fetched rows with STATUS_NORM and _ROW_KEY
_load_admin_df(table) ==
  LET df == fetch_pedidos_cached(table)
  IN  [i \in 1..Len(df) |->
         [c \in CachedFields \cup {"STATUS_NORM", "_ROW_KEY"} |->
            CASE c = "STATUS_NORM" -> StatusNorm(df[i]["STATUS"])
              [] c = "_ROW_KEY" -> build_row_key_from_series(df[i])
              [] OTHER -> df[i][c]]]

\* line 485: index -> key of the rows the grid shows (no filter set)
IndexToKey(admin_df) == [i \in 1..Len(admin_df) |-> admin_df[i]["_ROW_KEY"]]

\* build_status_changes recomputes _ROW_KEY on the frame it is given; lookup
\* maps a key to the last row that has it
DiffKeys(df) == [i \in 1..Len(df) |-> build_row_key_from_series(df[i])]

Lookup(keys_, k) ==
  IF \E i \in 1..Len(keys_) : keys_[i] = k
  THEN CHOOSE i \in 1..Len(keys_) : keys_[i] = k /\ \A j \in (i + 1)..Len(keys_) : keys_[j] # k
  ELSE 0

\* str(row.get("STATUS", "")).upper().strip() or Status.EM_ANALISE
CurrentStatus(row) ==
  LET n == str_strip(str_upper(py_str(RowGet(row, "STATUS"))))
  IN  IF n = EmptyText THEN EM_ANALISE ELSE n

\* A mutated approver rule: the e-mail is attached whatever the new status.
ValidadoPorAnyStatus(new_status, admin_email, has_validado_por) ==
  IF has_validado_por THEN admin_email ELSE NaN

\* lines 216-218: validado_por of a change; None is the missing value
ValidadoPor(new_status, admin_email, has_validado_por) ==
  IF has_validado_por /\ new_status \in {APROVADO, RECUSADO}
  THEN admin_email ELSE NaN

RECURSIVE build_status_changes(_, _, _, _)
build_status_changes(df, pending_labels, admin_email, has_validado_por) ==
  IF df = <<>> \/ pending_labels = <<>> THEN <<>>
  ELSE LET item == pending_labels[1]
           idx == Lookup(DiffKeys(df), item.key)
           new_status == STATUS_LABEL_INV(item.val)
           rest == IF Len(pending_labels) = 1 THEN <<>>
                   ELSE build_status_changes(df, Tail(pending_labels),
                                             admin_email, has_validado_por)
       IN  IF idx = 0 THEN rest
           ELSE IF new_status = CurrentStatus(df[idx]) THEN rest
           ELSE <<[timestamp |-> df[idx]["TIMESTAMP"], nome |-> df[idx]["NOME"],
                   email |-> df[idx]["E-MAIL"], utd |-> df[idx]["UTD"],
                   base |-> df[idx]["BASE"], servico |-> df[idx]["SERVICO"],
                   pacotes |-> df[idx]["PACOTES"], status |-> new_status,
                   validado_por |->
                     ValidadoPor(new_status, admin_email, has_validado_por)]>> \o rest

\* StatusChange.as_tuple against the placeholders of the UPDATE: with the
\* VALIDADO_POR statement a change without validado_por has one value too few
ArityFits(change, has_validado_por) ==
  has_validado_por => change.validado_por # NaN

\* one UPDATE ... WHERE the seven key columns equal the change's values
ApplyChange(table, ch, has_validado_por) ==
  [i \in 1..Len(table) |->
     IF /\ \A c \in {"TIMESTAMP", "NOME", "E-MAIL", "UTD", "BASE", "SERVICO", "PACOTES"} :
             c \in NumericColumns \/ table[i][c] # NaN
        /\ table[i]["TIMESTAMP"] = ch.timestamp
        /\ table[i]["NOME"] = ch.nome
        /\ table[i]["E-MAIL"] = ch.email
        /\ table[i]["UTD"] = ch.utd
        /\ table[i]["BASE"] = ch.base
        /\ table[i]["SERVICO"] = ch.servico
        /\ table[i]["PACOTES"] = ch.pacotes
     THEN IF has_validado_por
          THEN [table[i] EXCEPT !["STATUS"] = ch.status,
                                !["VALIDADO_POR"] = ch.validado_por]
          ELSE [table[i] EXCEPT !["STATUS"] = ch.status]
     ELSE table[i]]

RECURSIVE update_statuses(_, _, _)
update_statuses(table, changes, has_validado_por) ==
  IF changes = <<>> THEN table
  ELSE update_statuses(ApplyChange(table, changes[1], has_validado_por),
                       Tail(changes), has_validado_por)

\* the helper 3_Gestao.py imports from app.services.pedidos_service, which
\* does not define it: taken as has_column
pedidos_table_has_column(column) == has_column(column)

\* LIKE '%sub%'
Contains(text, sub) ==
  \E i \in 1..(Len(text) - Len(sub) + 1) : SubSeq(text, i, i + Len(sub) - 1) = sub

\* the CARTEIRA codes of the query and the SELECIONAR marks of the export
CONVENCIONAL == <<"C","O","N","V","E","N","C","I","O","N","A","L">>

DISJUNTOR == <<"D","I","S","J","U","N","T","O","R">>

RECORTE == <<"R","E","C","O","R","T","E">>

BAIXA == <<"B","A","I","X","A">>

COB_DOM == <<"C","O","B",".","D","O","M">>

SIM == <<"S","I","M">>

NAO == <<"N","A","O">>

\* the CASE of INNER_Q on UPPER(BP.SERVICO)
Carteira(servico) ==
  LET u == IF servico = NaN THEN EmptyText ELSE str_upper(servico)
  IN  IF Contains(u, <<"G","A","V","I","A","O">>) THEN DISJUNTOR
      ELSE IF Contains(u, <<"R","E","C","O","R","T","E">>) THEN RECORTE
      ELSE IF Contains(u, <<"B","A","I","X","A">>) THEN BAIXA
      ELSE IF Contains(u, <<"V","I","S","I","T","A">>) THEN COB_DOM
      ELSE CONVENCIONAL

\* the joins of INNER_Q with BASES: the TURMA under which the row's ZONA is a
\* base of its UTD in DAG40
ZoneIs(row, turma) ==
  /\ row["ZONA"] # NaN /\ row["UTD"] # NaN
  /\ \E k \in 1..Len(dag40_df) :
       /\ dag40_df[k].TURMA = turma
       /\ dag40_df[k].ZONA = row["ZONA"]
       /\ str_strip(str_upper(dag40_df[k].UTD)) = str_strip(str_upper(row["UTD"]))

QueryTurma(row) ==
  IF ZoneIs(row, STC) /\ ~ZoneIs(row, EPS) THEN STC
  ELSE IF ZoneIs(row, EPS) /\ ~ZoneIs(row, STC) THEN EPS
  ELSE IF ZoneIs(row, STC) /\ ZoneIs(row, EPS) THEN <<"A","M","B","I","G","U","O">>
  ELSE NaN

\* TO_DATE(BP."TIMESTAMP"): two clock ticks to the day
DateOf(ts) == ts \div 2

FillNa(c, v) == IF c \in NumericColumns THEN v ELSE IF v = NaN THEN EmptyText ELSE v

\* the row INNER_Q selects for a row of the table, after .fillna("")
QueryRow(row) ==
  [c \in {"UTD", "ZONA", "PACOTES", "CARTEIRA", "TURMA", "NOME", "EMAIL", "BASE",
          "SERVICO", "TS"} |->
     CASE c = "CARTEIRA" -> Carteira(row["SERVICO"])
       [] c = "TURMA" -> FillNa(c, QueryTurma(row))
       [] c = "EMAIL" -> FillNa(c, row["E-MAIL"])
       [] c = "TS" -> FillNa(c, row["TIMESTAMP"])
       [] OTHER -> FillNa(c, row[c])]

\* WHERE TO_DATE(...) = ? ... WHERE TURMA IN (...) AND CARTEIRA IN (...)
InQuery(row, sel_date, turmas, carteiras) ==
  /\ DateOf(row["TIMESTAMP"]) = sel_date
  /\ QueryTurma(row) \in turmas
  /\ Carteira(row["SERVICO"]) \in carteiras

_run_cluster_config_query(table, sel_date, turmas, carteiras) ==
  LET hit == SelectSeq(table, LAMBDA r : InQuery(r, sel_date, turmas, carteiras))
  IN  [i \in 1..Len(hit) |-> QueryRow(hit[i])]

\* A mutated key frame: the query's column names TS and EMAIL are not mapped
\* to the names the key builder reads.
KeyFrameUnmapped(q) == q

\* df_all_for_key (lines 321-331): the query row under the key builder's names
KeyFrame(q) ==
  [c \in {"TIMESTAMP", "NOME", "E-MAIL", "UTD", "BASE", "SERVICO", "PACOTES"} |->
     CASE c = "TIMESTAMP" -> q["TS"]
       [] c = "E-MAIL" -> q["EMAIL"]
       [] c = "PACOTES" -> q["PACOTES"]
       [] OTHER -> q[c]]

\* lines 320-339: the frame kept in csv_gen_state
CsvFrame(table, sel_map, sel_date, turmas, carteiras, excluir_desmarcados) ==
  LET df_all == _run_cluster_config_query(table, sel_date, turmas, carteiras)
      flagged == [i \in 1..Len(df_all) |->
                    LET k == build_row_key_from_series(KeyFrame(df_all[i]))
                    IN  [TURMA |-> df_all[i]["TURMA"],
                         CARTEIRA |-> df_all[i]["CARTEIRA"],
                         _ROW_KEY |-> k,
                         SELECIONAR |-> IF DictGet(sel_map, k, TRUE) THEN SIM ELSE NAO]]
  IN  IF excluir_desmarcados
      THEN SelectSeq(flagged, LAMBDA r : r.SELECIONAR = SIM)
      ELSE flagged

(* ------------------------------------------------------------------ *)
(* SpecAdmin: the management page over a table filled by the request    *)
(* page. The grid, the status diff and the CSV export each derive the   *)
(* key of a row on their own.                                           *)
(* ------------------------------------------------------------------ *)

MaxAdminRows == 2

\* st.session_state[ADMIN_EMAIL]
AdminEmail == <<"a","d","m">> \o EmailDomain

AdminLinePool ==
  {MkRow(0, U1, B1, STC, AMANHA, Corte, 1, JustOk, EmptyText, Z1),
   MkRow(0, U2, B3, EPS, AMANHA, CorteGaviao, 12, JustOk, EmptyText, Z4)}

\* the table after one accepted Enviar of the request page at time ts
Submitted(table, lines, ts, include_turma) ==
  LET r == _validate_and_prepare_output(IgnoreIndex(lines), NameOk, EmailOk, FALSE, ts)
  IN  IF r.status = "ok" THEN insert_pedidos(table, r.out, include_turma) ELSE table

\* the tables two submissions can leave; a full table starts with the line
\* of the first UTD
AdminStores(include_turma) ==
  {Submitted(Submitted(<<>>, b1, 1, include_turma), b2, 2, include_turma) :
     <<b1, b2>> \in {y \in SeqsUpTo(AdminLinePool, MaxAdminRows)
                          \X SeqsUpTo(AdminLinePool, MaxAdminRows) :
                       /\ Len(y[1]) >= 1
                       /\ Len(y[1]) + Len(y[2]) <= MaxAdminRows
                       /\ Len(y[1]) + Len(y[2]) = MaxAdminRows => y[1][1]["UTD"] = U1}}

InitAdmin ==
  /\ utds_sel = <<>>
  /\ turma_sel = STC
  /\ utd_base_sel = <<>>
  /\ lines_df = _empty_df
  /\ rendered = [editor |-> FALSE, rows |-> 0]
  /\ flash = "none"
  /\ clock = 3
  /\ table_columns \in TableShapes
  /\ store \in AdminStores("TURMA" \in table_columns)
  /\ AdminInit
  /\ FnIdle

\* lines 484-485 of a page run: the index -> key map of the rows drawn
AdminRender(table) ==
  admin_index_to_key' = IndexToKey(_load_admin_df(table))

OpenPage ==
  /\ AdminRender(store)
  /\ admin_notice' = "none"
  /\ UNCHANGED <<pageVars, fnVars, adminFrame, admin_pending_changes, csv_row_selection,
                 csv_gen_state, show_csv_tools>>

StatusLabels == {LabelAprovado, LabelPendente}

\* _capture_admin_edits for a STATUS cell of grid row idx
CaptureStatus(idx, label) ==
  /\ idx \in 1..Len(admin_index_to_key)
  /\ admin_pending_changes' = DictSet(admin_pending_changes, admin_index_to_key[idx], label)
  /\ AdminRender(store)
  /\ admin_notice' = "none"
  /\ UNCHANGED <<pageVars, fnVars, adminFrame, csv_row_selection, csv_gen_state, show_csv_tools>>

\* _capture_admin_edits for the SELECIONAR checkbox of grid row idx: the box
\* shows sel_map.get(key, True) and the click inverts it
CaptureSelect(idx) ==
  /\ idx \in 1..Len(admin_index_to_key)
  /\ LET key == admin_index_to_key[idx]
     IN  csv_row_selection' =
           DictSet(csv_row_selection, key, ~DictGet(csv_row_selection, key, TRUE))
  /\ AdminRender(store)
  /\ admin_notice' = "none"
  /\ UNCHANGED <<pageVars, fnVars, adminFrame, admin_pending_changes, csv_gen_state, show_csv_tools>>

RECURSIVE SetAll(_, _, _)
SetAll(d, keys_, v) ==
  IF keys_ = <<>> THEN d ELSE SetAll(DictSet(d, keys_[1], v), Tail(keys_), v)

\* the button "Aprovar tudo"
ApproveAll ==
  /\ admin_index_to_key # <<>>
  /\ admin_pending_changes' = SetAll(admin_pending_changes, admin_index_to_key, LabelAprovado)
  /\ AdminRender(store)
  /\ admin_notice' = "none"
  /\ UNCHANGED <<pageVars, fnVars, adminFrame, csv_row_selection, csv_gen_state, show_csv_tools>>

\* the button "Descartar mudancas pendentes"
DiscardPending ==
  /\ admin_pending_changes # <<>>
  /\ admin_pending_changes' = <<>>
  /\ AdminRender(store)
  /\ admin_notice' = "none"
  /\ UNCHANGED <<pageVars, fnVars, adminFrame, csv_row_selection, csv_gen_state, show_csv_tools>>

RECURSIVE _toggle_selection(_, _)
_toggle_selection(sel_map, keys_) ==
  IF keys_ = <<>> THEN sel_map
  ELSE _toggle_selection(DictSet(sel_map, keys_[1], ~DictGet(sel_map, keys_[1], TRUE)),
                         Tail(keys_))

\* the button "Alternar selecao"
ToggleSelection ==
  /\ admin_index_to_key # <<>>
  /\ csv_row_selection' = _toggle_selection(csv_row_selection, admin_index_to_key)
  /\ AdminRender(store)
  /\ admin_notice' = "none"
  /\ UNCHANGED <<pageVars, fnVars, adminFrame, admin_pending_changes, csv_gen_state, show_csv_tools>>

\* how _apply_pending_changes ends: "refused" (no STATUS column: a warning
\* and return 0), "failed" (executemany raises on a parameter tuple of the
\* wrong length) or "applied"
FlushOutcome(changes, has_validado_por) ==
  IF ~pedidos_table_has_column("STATUS") THEN "refused"
  ELSE IF \A i \in 1..Len(changes) : ArityFits(changes[i], has_validado_por)
       THEN "applied" ELSE "failed"

\* A mutated flush: the pending map is cleared however the flush ends.
PendingAlwaysCleared(outcome, pending) == <<>>

\* lines 100-105 return before, and an exception skips, the clear() of line 120
PendingAfterFlush(outcome, pending) ==
  IF outcome = "applied" THEN <<>> ELSE pending

\* what the page shows once the handler is over: a return value, 0 of the
\* refusal included, is stored in ADMIN_LAST_APPLY and the rerun that follows
\* replaces the page (the warning of line 104 with it) and shows the success
\* banner of lines 427-431; an exception shows the error of line 574
NoticeAfterFlush(outcome) ==
  IF outcome = "failed" THEN "error" ELSE "success"

\* the button "Aplicar mudancas no HANA": _apply_pending_changes on a fresh
\* _load_admin_df. When executemany raises, the rows updated before the
\* offending tuple may or may not stay updated.
ApplyPendingAs(admin_email) ==
  /\ admin_pending_changes # <<>>
  /\ LET current_df == _load_admin_df(store)
         has_validado_por == pedidos_table_has_column("VALIDADO_POR")
         changes == build_status_changes(current_df, admin_pending_changes,
                                         admin_email, has_validado_por)
         bad == {i \in 1..Len(changes) : ~ArityFits(changes[i], has_validado_por)}
         outcome == FlushOutcome(changes, has_validado_por)
     IN  /\ admin_pending_changes' = PendingAfterFlush(outcome, admin_pending_changes)
         /\ admin_notice' = NoticeAfterFlush(outcome)
         /\ CASE outcome = "refused" ->
                   /\ show_csv_tools' = TRUE
                   /\ AdminRender(store)
                   /\ UNCHANGED store
              [] outcome = "applied" ->
                   /\ store' = update_statuses(store, changes, has_validado_por)
                   /\ show_csv_tools' = TRUE
                   /\ AdminRender(store')
              [] outcome = "failed" ->
                   /\ \E k \in 0..(CHOOSE i \in bad : \A j \in bad : i <= j) - 1 :
                        store' = update_statuses(store, SubSeq(changes, 1, k),
                                                 has_validado_por)
                   /\ UNCHANGED <<show_csv_tools, admin_index_to_key>>
  /\ UNCHANGED <<utds_sel, turma_sel, utd_base_sel, lines_df, rendered,
                 table_columns, clock, flash, fnVars, csv_row_selection, csv_gen_state,
                 adminFrame>>

\* the flush of the sessions whose ADMIN_EMAIL is AdminEmail
ApplyPending == ApplyPendingAs(AdminEmail)

Carteiras == {CONVENCIONAL, DISJUNTOR, RECORTE, BAIXA, COB_DOM}

\* the button "Gerar arquivos de configuracao" and _store_csv_state
GenerateCsv(gen_date, turmas_sel, carteiras_db_sel, excluir_desmarcados) ==
  /\ show_csv_tools
  /\ turmas_sel # {} /\ carteiras_db_sel # {}
  /\ csv_gen_state' = <<[df_all |-> CsvFrame(store, csv_row_selection, gen_date, turmas_sel,
                                             carteiras_db_sel, excluir_desmarcados),
                         dt |-> gen_date]>>
  /\ AdminRender(store)
  /\ admin_notice' = "none"
  /\ UNCHANGED <<pageVars, fnVars, adminFrame, admin_pending_changes,
                 csv_row_selection, show_csv_tools>>

\* the checkbox "Excluir do arquivo as linhas desmarcadas" of the CSV tools
SetExcluir ==
  /\ show_csv_tools
  /\ csv_excluir_desmarcados' = ~csv_excluir_desmarcados
  /\ AdminRender(store)
  /\ admin_notice' = "none"
  /\ UNCHANGED <<pageVars, fnVars, admin_pending_changes, csv_row_selection,
                 csv_gen_state, show_csv_tools, full_reset_flag, admin_sessions,
                 pedidos_cache, authVars>>

NextAdmin ==
  \/ OpenPage
  \/ \E idx \in 1..MaxAdminRows, label \in StatusLabels : CaptureStatus(idx, label)
  \/ \E idx \in 1..MaxAdminRows : CaptureSelect(idx)
  \/ ApproveAll
  \/ DiscardPending
  \/ ToggleSelection
  \/ ApplyPending
  \/ SetExcluir
  \/ \E gen_date \in {DateOf(1), DateOf(2)} :
       GenerateCsv(gen_date, TurmaOptions, Carteiras, csv_excluir_desmarcados)

SpecAdmin == InitAdmin /\ [][NextAdmin]_vars

\* the key each of the three places derives for row i of the table
GridKey(i) == _load_admin_df(store)[i]["_ROW_KEY"]

DiffKey(i) == DiffKeys(_load_admin_df(store))[i]

CsvKey(i) == build_row_key_from_series(KeyFrame(QueryRow(store[i])))

ChangesFor(entry) ==
  build_status_changes(_load_admin_df(store), <<entry>>, AdminEmail,
                       pedidos_table_has_column("VALIDADO_POR"))

\* C11: the status diff emits no change for a pending entry whose label maps
\* to the current status of its row, an unset, blank or NULL-like status
\* counting as EM ANALISE (the STATUS_NORM of the grid).
C11_NoChangeForCurrentStatus ==
  \A n \in 1..Len(admin_pending_changes) :
    LET entry == admin_pending_changes[n]
        df == _load_admin_df(store)
        idx == Lookup(DiffKeys(df), entry.key)
    IN  (idx # 0 /\ STATUS_LABEL_INV(entry.val) = df[idx]["STATUS_NORM"])
          => ChangesFor(entry) = <<>>

\* the changes and the outcome of a flush pressed in the current state
FlushChanges ==
  build_status_changes(_load_admin_df(store), admin_pending_changes, AdminEmail,
                       pedidos_table_has_column("VALIDADO_POR"))

FlushEnds(outcome) ==
  FlushOutcome(FlushChanges, pedidos_table_has_column("VALIDADO_POR")) = outcome

(* ------------------------------------------------------------------ *)
(* SpecFlush: the status workflow of the management page in a session   *)
(* that can also ask for, and get, the full reset.                      *)
(* ------------------------------------------------------------------ *)

NextFlush ==
  \/ OpenPage
  \/ \E idx \in 1..MaxAdminRows, label \in StatusLabels : CaptureStatus(idx, label)
  \/ ApproveAll
  \/ DiscardPending
  \/ ApplyPending
  \/ \E now \in PageTimes : LimparTudo(now)
  \/ VisitHome

SpecFlush == InitAdmin /\ [][NextFlush]_vars

\* C12, as stated: the pending status map is emptied by a flush that is
\* applied and by a discard, and by nothing else; a flush that is refused (no
\* STATUS column) or that fails in the store leaves every pending entry in
\* place.
C12_PendingClearedByFlushOrDiscardOnly ==
  [][/\ DiscardPending => admin_pending_changes' = <<>>
     /\ ApplyPending =>
          admin_pending_changes' =
            IF FlushEnds("applied") THEN <<>> ELSE admin_pending_changes
     /\ (admin_pending_changes # <<>> /\ admin_pending_changes' = <<>>) =>
          (DiscardPending \/ (ApplyPending /\ FlushEnds("applied")))]_vars

\* C12, amended: the pending status map is emptied by a flush that is
\* applied, by a discard, and by the full reset of the session when the main
\* page runs with the reset flag set, and by nothing else; a flush that is
\* refused or that fails in the store leaves every pending entry in place.
C12_PendingClearedByFlushDiscardOrReset ==
  [][/\ DiscardPending => admin_pending_changes' = <<>>
     /\ ApplyPending =>
          admin_pending_changes' =
            IF FlushEnds("applied") THEN <<>> ELSE admin_pending_changes
     /\ (VisitHome /\ full_reset_flag = <<TRUE>>) => admin_pending_changes' = <<>>
     /\ (admin_pending_changes # <<>> /\ admin_pending_changes' = <<>>) =>
          \/ DiscardPending
          \/ ApplyPending /\ FlushEnds("applied")
          \/ VisitHome /\ full_reset_flag = <<TRUE>>]_vars

\* a failed flush has kept its pending entries and reported the error
C12_Witness ==
  /\ admin_notice = "error"
  /\ admin_pending_changes # <<>>
  /\ pedidos_table_has_column("STATUS")

\* C13: without the STATUS column a flush sends no update to the store and
\* what the user is told is a refusal, not a successful apply.
C13_RefusedFlushReportsRefusal ==
  [][(ApplyPending /\ FlushEnds("refused")) =>
       (store' = store /\ admin_notice' # "success")]_vars

(* ------------------------------------------------------------------ *)
(* SpecReset: handle_full_reset and trigger_full_reset on sessions of a  *)
(* few keys. call holds the session, result one entry per run of the     *)
(* handler since the latest trigger.                                     *)
(* ------------------------------------------------------------------ *)

MaxHandles == 3

ResetItems ==
  {[key |-> k, val |-> v] : k \in {"utds_sel", "lines_df", "admin_pending_changes"},
                            v \in {U1, U2}}

ResetSessions ==
  {[flag |-> f, rest |-> d] :
     f \in {<<>>, <<TRUE>>, <<FALSE>>},
     d \in {q \in SeqsUpTo(ResetItems, 2) :
              \A i, j \in 1..Len(q) : i # j => q[i].key # q[j].key}}

InitReset ==
  /\ SessionInit
  /\ AdminInit
  /\ table_columns = OptionalColumns
  /\ call \in {<<s>> : s \in ResetSessions}
  /\ result = <<>>
  /\ pc = "session"

\* a run of the main script
HandleReset ==
  /\ Len(result) < MaxHandles
  /\ LET r == handle_full_reset(call[1])
     IN  /\ call' = <<r.state>>
         /\ result' = Append(result, [before |-> call[1], after |-> r.state,
                                      reruns |-> r.reruns])
  /\ pc' = "handled"
  /\ UNCHANGED <<pageVars, adminVars, auxVars>>

\* a button that asks for the reset
TriggerReset ==
  /\ call' = <<trigger_full_reset(call[1])>>
  /\ result' = <<>>
  /\ pc' = "triggered"
  /\ UNCHANGED <<pageVars, adminVars, auxVars>>

NextReset == HandleReset \/ TriggerReset

SpecReset == InitReset /\ [][NextReset]_vars

\* C18: a run of handle_full_reset on a session whose flag is set leaves
\* exactly the flag, FALSE, and asks for one rerun; on a session whose flag
\* is absent or FALSE it leaves the session as it was and asks for none; the
\* runs that follow one trigger reset at most once, so the rerun does not
\* come back to the reset.
C18_ResetIffFlagSet ==
  /\ \A n \in 1..Len(result) :
       IF result[n].before.flag = <<TRUE>>
       THEN /\ result[n].after = [flag |-> <<FALSE>>, rest |-> <<>>]
            /\ result[n].reruns = 1
       ELSE /\ result[n].after = result[n].before
            /\ result[n].reruns = 0
  /\ Cardinality({n \in 1..Len(result) : result[n].reruns > 0}) <= 1

\* a triggered session of several keys, reset by the first run of the
\* handler and left alone by the second
C18_Witness ==
  /\ Len(result) >= 2
  /\ result[1].before.flag = <<TRUE>>
  /\ result[1].before.rest # <<>>
  /\ result[1].reruns = 1
  /\ result[2].reruns = 0

\* C19: once "Limpar Tudo" or "Fazer outro pedido" has been pressed, the
\* request page runs from an empty line table and an empty selection: at
\* the end of a run of the request page with the reset asked for, there is
\* no line and nothing selected.
C19_ResetClearsRequestPage ==
  full_reset_flag = <<TRUE>> =>
    /\ lines_df = _empty_df
    /\ utds_sel = <<>>
    /\ utd_base_sel = <<>>

(* ------------------------------------------------------------------ *)
(* app/exporters/csv_exporter.py                                        *)
(* ------------------------------------------------------------------ *)

\* the characters of the texts that are sorted, in code point order
CodeOrder == <<" ", ".">> \o Digits10 \o Upper26 \o <<"_">> \o Lower26

CharRank(c) ==
  IF \E i \in 1..Len(CodeOrder) : CodeOrder[i] = c THEN IndexIn(c, CodeOrder) ELSE 0

\* a < b of two str values
RECURSIVE TextLess(_, _)
TextLess(a, b) ==
  IF b = <<>> THEN FALSE
  ELSE IF a = <<>> THEN TRUE
  ELSE IF CharRank(a[1]) # CharRank(b[1]) THEN CharRank(a[1]) < CharRank(b[1])
  ELSE TextLess(Tail(a), Tail(b))

PairLess(p, q) == TextLess(p[1], q[1]) \/ (p[1] = q[1] /\ TextLess(p[2], q[2]))

\* the group keys in the order groupby(sort=True) yields them
RECURSIVE SortPairs(_)
SortPairs(S) ==
  IF S = {} THEN <<>>
  ELSE LET m == CHOOSE x \in S : \A y \in S \ {x} : PairLess(x, y)
       IN  <<m>> \o SortPairs(S \ {m})

DROP_AUX_COLUMNS == {"TS", "_ROW_KEY", "NOME", "EMAIL", "BASE", "SERVICO", "PACOTES"}

_carteira_suffix(db_code) ==
  LET code == str_upper(str_strip(db_code))
  IN  IF code = COB_DOM THEN <<"d","o","m","i","c","i","l","i","a","r">>
      ELSE IF code = DISJUNTOR THEN <<"d","i","s","j","u","n","t","o","r">>
      ELSE str_lower(code)

_drop_auxiliary_columns(df) ==
  [i \in 1..Len(df) |-> [c \in (DOMAIN df[i]) \ DROP_AUX_COLUMNS |-> df[i][c]]]

\* df[selection_col].astype(str).str.upper().eq("SIM")
SelectionMask(row, selection_col) == str_upper(astype_str(row[selection_col])) = SIM

_filter_selection(df, exclude_unselected, selection_col) ==
  IF df = <<>> \/ selection_col \notin DOMAIN df[1] THEN df
  ELSE IF exclude_unselected
       THEN SelectSeq(df, LAMBDA r : SelectionMask(r, selection_col))
       ELSE [i \in 1..Len(df) |->
               [df[i] EXCEPT ![selection_col] =
                  IF SelectionMask(df[i], selection_col) THEN SIM ELSE NAO]]

\* A mutated grouping: a missing TURMA or CARTEIRA is a group key like any other.
GroupKeysWithNulls(working) ==
  {<<working[i]["TURMA"], working[i]["CARTEIRA"]>> : i \in 1..Len(working)}

\* the keys of working.groupby(["TURMA", "CARTEIRA"], dropna=True)
GroupKeys(working) ==
  {<<working[i]["TURMA"], working[i]["CARTEIRA"]>> :
     i \in {j \in 1..Len(working) :
              working[j]["TURMA"] # NaN /\ working[j]["CARTEIRA"] # NaN}}

\* subset.to_csv(index=False, na_rep=""): the records of the file, a missing
\* value written as the empty text and a number in digits
to_csv(subset) ==
  [i \in 1..Len(subset) |->
     [c \in DOMAIN subset[i] |->
        IF c \in NumericColumns THEN str_int(subset[i][c])
        ELSE IF subset[i][c] = NaN THEN EmptyText ELSE subset[i][c]]]

FileName(turma, carteira) ==
  <<"c","o","n","f","i","g","_">> \o str_lower(turma) \o <<"_">>
    \o _carteira_suffix(carteira) \o <<".","c","s","v">>

generate_csv_payloads(df, exclude_unselected) ==
  IF df = <<>> THEN <<>>
  ELSE LET working == _filter_selection(df, exclude_unselected, "SELECIONAR")
       IN  IF working = <<>> THEN <<>>
           ELSE LET grouped == SortPairs(GroupKeys(working))
                    subset(g) == SelectSeq(working,
                                   LAMBDA r : /\ r["TURMA"] = grouped[g][1]
                                              /\ r["CARTEIRA"] = grouped[g][2])
                    payload(g) == [turma |-> grouped[g][1],
                                   carteira |-> grouped[g][2],
                                   file_name |-> FileName(grouped[g][1], grouped[g][2]),
                                   content |-> to_csv(_drop_auxiliary_columns(subset(g)))]
                IN  SelectSeq([g \in 1..Len(grouped) |-> payload(g)],
                              LAMBDA p : p.content # <<>>)

(* ------------------------------------------------------------------ *)
(* SpecExport: generate_csv_payloads on frames of a few rows, with and  *)
(* without the SELECIONAR column. call holds the arguments, result the  *)
(* payloads returned.                                                   *)
(* ------------------------------------------------------------------ *)

MaxExportRows == 4

ExportRow(turma, carteira, selecionar) ==
  [c \in {"UTD", "TURMA", "CARTEIRA", "SELECIONAR", "_ROW_KEY"} |->
     CASE c = "UTD" -> U1
       [] c = "TURMA" -> turma
       [] c = "CARTEIRA" -> carteira
       [] c = "SELECIONAR" -> selecionar
       [] OTHER -> U1 \o NewLine \o B1]

ExportRowPool ==
  {ExportRow(STC, CONVENCIONAL, SIM),
   ExportRow(STC, CONVENCIONAL, NAO),
   ExportRow(EPS, COB_DOM, <<"s","i","m">>),
   ExportRow(EPS, CONVENCIONAL, NaN),
   ExportRow(NaN, CONVENCIONAL, SIM),
   ExportRow(STC, NaN, SIM),
   ExportRow(EmptyText, DISJUNTOR, SIM)}

WithoutColumn(df, column) ==
  [i \in 1..Len(df) |-> [c \in (DOMAIN df[i]) \ {column} |-> df[i][c]]]

ExportFrames ==
  LET frames == SeqsUpTo(ExportRowPool, MaxExportRows)
  IN  frames \cup {WithoutColumn(df, "SELECIONAR") : df \in frames}

InitExport ==
  /\ SessionInit
  /\ AdminInit
  /\ table_columns = OptionalColumns
  /\ call \in ExportFrames \X BOOLEAN
  /\ result = <<>>
  /\ pc = "call"

GeneratePayloads ==
  /\ pc = "call"
  /\ result' = <<generate_csv_payloads(call[1], call[2])>>
  /\ pc' = "done"
  /\ UNCHANGED <<pageVars, adminVars, auxVars, call>>

SpecExport == InitExport /\ [][GeneratePayloads]_vars

\* the rows of the frame that the option keeps
KeptRows(df, exclude_unselected) ==
  IF df # <<>> /\ exclude_unselected /\ "SELECIONAR" \in DOMAIN df[1]
  THEN SelectSeq(df, LAMBDA r : str_upper(astype_str(r["SELECIONAR"])) = SIM)
  ELSE df

Grouped(df) ==
  SelectSeq(df, LAMBDA r : r["TURMA"] # NaN /\ r["CARTEIRA"] # NaN)

RowsOfPair(df, turma, carteira) ==
  SelectSeq(df, LAMBDA r : r["TURMA"] = turma /\ r["CARTEIRA"] = carteira)

RECURSIVE SumOfLengths(_)
SumOfLengths(payloads) ==
  IF payloads = <<>> THEN 0
  ELSE Len(payloads[1].content) + SumOfLengths(Tail(payloads))

\* C15: generate_csv_payloads returns one payload for each (TURMA, CARTEIRA)
\* pair that occurs among the kept rows with both values present, and no
\* other; the payload of a pair holds as many records as there are kept rows
\* of the pair, each with that TURMA and CARTEIRA, and the payloads together
\* hold as many records as there are kept rows with both values present, so
\* that each such row is in one payload and a row with a missing TURMA or
\* CARTEIRA in none; no payload is without records; an empty frame gives no
\* payload.
C15_OnePayloadPerPair ==
  pc = "done" =>
    LET payloads == result[1]
        kept == Grouped(KeptRows(call[1], call[2]))
        pairs == {<<kept[i]["TURMA"], kept[i]["CARTEIRA"]>> : i \in 1..Len(kept)}
    IN  /\ Len(payloads) = Cardinality(pairs)
        /\ {<<payloads[g].turma, payloads[g].carteira>> : g \in 1..Len(payloads)} = pairs
        /\ \A g \in 1..Len(payloads) :
             /\ Len(payloads[g].content) =
                  Len(RowsOfPair(kept, payloads[g].turma, payloads[g].carteira))
             /\ Len(payloads[g].content) > 0
             /\ \A k \in 1..Len(payloads[g].content) :
                  /\ payloads[g].content[k]["TURMA"] = payloads[g].turma
                  /\ payloads[g].content[k]["CARTEIRA"] = payloads[g].carteira
        /\ SumOfLengths(payloads) = Len(kept)
        /\ call[1] = <<>> => payloads = <<>>

\* a frame with two pairs, a row without TURMA and an unselected row, exported
\* with the unselected rows left out
C15_Witness ==
  /\ pc = "done"
  /\ call[2]
  /\ Len(result[1]) = 2
  /\ \E i \in 1..Len(call[1]) : call[1][i]["TURMA"] = NaN
  /\ Len(Grouped(KeptRows(call[1], call[2]))) < Len(call[1]) - 1

\* lines 344-359: the downloads the page offers when the generated state
\* matches the filters, the date and the filters as they were at the click
OfferedPayloads ==
  IF csv_gen_state # <<>> /\ csv_gen_state[1].df_all # <<>>
  THEN generate_csv_payloads(csv_gen_state[1].df_all, csv_excluir_desmarcados)
  ELSE <<>>

\* the rows the query of the generation returned
GeneratedResultSet ==
  _run_cluster_config_query(store, csv_gen_state[1].dt, TurmaOptions, Carteiras)

\* C16: the downloads offered are the export of the generated result set
\* under the current value of the option: with the option on they hold the
\* rows marked SIM, with the option off they hold every row of the result
\* set, each stamped SIM or NAO.
C16_OfferedFollowsCurrentOption ==
  OfferedPayloads # <<>> =>
    IF csv_excluir_desmarcados
    THEN /\ SumOfLengths(OfferedPayloads) =
              Len(SelectSeq(csv_gen_state[1].df_all, LAMBDA r : r["SELECIONAR"] = SIM))
         /\ \A g \in 1..Len(OfferedPayloads) :
              \A k \in 1..Len(OfferedPayloads[g].content) :
                 OfferedPayloads[g].content[k]["SELECIONAR"] = SIM
    ELSE /\ SumOfLengths(OfferedPayloads) = Len(GeneratedResultSet)
         /\ \A g \in 1..Len(OfferedPayloads) :
              \A k \in 1..Len(OfferedPayloads[g].content) :
                 OfferedPayloads[g].content[k]["SELECIONAR"] \in {SIM, NAO}

(* ------------------------------------------------------------------ *)
(* SpecWindow: current_time_window at every second of the day. call     *)
(* holds the time, result the window returned.                          *)
(* ------------------------------------------------------------------ *)

DaySeconds == 24 * 3600

InitWindow ==
  /\ SessionInit
  /\ AdminInit
  /\ table_columns = OptionalColumns
  /\ call \in {<<now>> : now \in 0..(DaySeconds - 1)}
  /\ result = <<>>
  /\ pc = "call"

ComputeWindow ==
  /\ pc = "call"
  /\ result' = <<current_time_window(call[1])>>
  /\ pc' = "done"
  /\ UNCHANGED <<pageVars, adminVars, auxVars, call>>

SpecWindow == InitWindow /\ [][ComputeWindow]_vars

StillSelected(lines, sel, turma) ==
  SelectSeq(lines, LAMBDA r : PairSelected(r, sel) /\ r["TURMA"] = turma)

\* C20: the reconciliation leaves the lines of the pairs still selected as
\* they are: they are the first lines of the result, in the order they had,
\* each with the value it had in every column (the extra lines of a pair
\* among them), and every line after them is a default line made for a pair
\* that had none.
C20_SyncKeepsSelectedLines ==
  pc = "once" =>
    LET out == result[1]
        keepers == StillSelected(call.lines, call.sel, call.turma)
    IN  /\ Len(out) >= Len(keepers)
        /\ \A k \in 1..Len(keepers) :
             \A c \in RowFields \ {"index"} : out[k][c] = keepers[k][c]
        /\ \A k \in (Len(keepers) + 1)..Len(out) :
             /\ out[k]["SERVIÇO"] = EmptyText
             /\ out[k]["PACOTES"] = 1
             /\ out[k]["JUSTIFICATIVA"] = EmptyText
             /\ out[k]["COMENTARIO"] = EmptyText
             /\ out[k]["GERACAO_PARA"] = call.geracao_default
             /\ ~\E i \in 1..Len(keepers) :
                   /\ keepers[i]["UTD"] = out[k]["UTD"]
                   /\ keepers[i]["BASE"] = out[k]["BASE"]

\* two lines of one selected pair, the second one edited, are kept in their
\* order in front of the default line made for another selected pair
C20_Witness ==
  /\ pc = "once"
  /\ Len(StillSelected(call.lines, call.sel, call.turma)) = 2
  /\ call.lines[1]["UTD"] = call.lines[2]["UTD"]
  /\ call.lines[1]["BASE"] = call.lines[2]["BASE"]
  /\ call.lines[1]["SERVIÇO"] = EmptyText
  /\ call.lines[2]["SERVIÇO"] = Corte
  /\ Len(result[1]) = 3
  /\ result[1][2]["SERVIÇO"] = Corte


(* ------------------------------------------------------------------ *)
(* SpecTwoAdmins: two administrators on the management page of one       *)
(* server process. Each session runs its script in a thread of its own,  *)
(* so the statements of the flush handler of one session interleave with *)
(* those of the other; the st.cache_data entry of fetch_pedidos_cached   *)
(* is shared by both.                                                    *)
(* ------------------------------------------------------------------ *)

Sessions == {1, 2}

\* the flushes are stamped in the order of their loads and writes
MaxTicks == 6

\* the labels the two administrators choose between
ConcurrentLabels == {LabelAprovado, LabelRecusado}

\* _ensure_admin_state of a session, with the history of its latest flush:
\* the label it flushed and the stamps of its load and of its write
IdleSession ==
  [pending |-> <<>>, step |-> "page", changes |-> <<>>, flushed |-> <<>>,
   loaded_at |-> 0, wrote_at |-> 0]

Ticks ==
  LET stamps == {admin_sessions[s].loaded_at : s \in Sessions}
                  \cup {admin_sessions[s].wrote_at : s \in Sessions}
  IN  CHOOSE t \in stamps : \A u \in stamps : u <= t

\* fetch_pedidos_cached under st.cache_data(ttl=15): the table read at the
\* time of the miss is returned until the entry expires or is cleared
CachedTable == IF pedidos_cache = <<>> THEN store ELSE pedidos_cache[1]

CacheAfterRead == IF pedidos_cache = <<>> THEN <<store>> ELSE pedidos_cache

\* the deployed table with one order in it, nobody on the page yet
InitTwoAdmins ==
  /\ utds_sel = <<>>
  /\ turma_sel = STC
  /\ utd_base_sel = <<>>
  /\ lines_df = _empty_df
  /\ rendered = [editor |-> FALSE, rows |-> 0]
  /\ flash = "none"
  /\ clock = 3
  /\ table_columns = OptionalColumns
  /\ store \in {t \in AdminStores(TRUE) : Len(t) = 1}
  /\ admin_index_to_key = <<>>
  /\ admin_pending_changes = <<>>
  /\ csv_row_selection = <<>>
  /\ csv_gen_state = <<>>
  /\ show_csv_tools = FALSE
  /\ admin_notice = "none"
  /\ csv_excluir_desmarcados = TRUE
  /\ full_reset_flag = <<>>
  /\ admin_sessions = [s \in Sessions |-> IdleSession]
  /\ pedidos_cache = <<>>
  /\ authentication_status = <<>>
  /\ username = NaN
  /\ FnIdle

twoAdminsFrame ==
  <<utds_sel, turma_sel, utd_base_sel, lines_df, rendered, table_columns, clock,
    flash, fnVars, adminVars, admin_notice, csv_excluir_desmarcados, full_reset_flag,
    authVars>>

\* a run of the page in session s: _load_admin_df fills the cache on a miss
SessionRun(s) ==
  /\ admin_sessions[s].step = "page"
  /\ pedidos_cache = <<>>
  /\ pedidos_cache' = CacheAfterRead
  /\ UNCHANGED <<store, admin_sessions, twoAdminsFrame>>

\* session s picks a label in the STATUS cell of the row: _capture_admin_edits
\* and the run of the page that follows
SessionEdit(s, label) ==
  /\ admin_sessions[s].step = "page"
  /\ LET admin_df == _load_admin_df(CachedTable)
     IN  /\ Len(admin_df) >= 1
         /\ admin_sessions' =
              [admin_sessions EXCEPT
                 ![s].pending = DictSet(@, IndexToKey(admin_df)[1], label)]
  /\ pedidos_cache' = CacheAfterRead
  /\ UNCHANGED <<store, twoAdminsFrame>>

\* the flush of session s, line 567 and the diff: current_df is what
\* fetch_pedidos_cached returns, and build_status_changes compares with it
FlushLoad(s) ==
  /\ admin_sessions[s].step = "page"
  /\ admin_sessions[s].pending # <<>>
  /\ Ticks + 2 <= MaxTicks
  /\ LET current_df == _load_admin_df(CachedTable)
         changes == build_status_changes(current_df, admin_sessions[s].pending,
                                         AdminEmail,
                                         pedidos_table_has_column("VALIDADO_POR"))
     IN  admin_sessions' =
           [admin_sessions EXCEPT
              ![s].step = "loaded",
              ![s].changes = changes,
              ![s].flushed = <<admin_sessions[s].pending[1].val>>,
              ![s].loaded_at = Ticks + 1]
  /\ pedidos_cache' = CacheAfterRead
  /\ UNCHANGED <<store, twoAdminsFrame>>

\* the flush of session s, update_statuses: executemany and commit
FlushWrite(s) ==
  /\ admin_sessions[s].step = "loaded"
  /\ store' = update_statuses(store, admin_sessions[s].changes,
                              pedidos_table_has_column("VALIDADO_POR"))
  /\ admin_sessions' =
       [admin_sessions EXCEPT ![s].step = "written", ![s].wrote_at = Ticks + 1]
  /\ UNCHANGED <<pedidos_cache, twoAdminsFrame>>

\* the flush of session s, lines 117-120: st.cache_data.clear() and
\* pending.clear()
FlushFinish(s) ==
  /\ admin_sessions[s].step = "written"
  /\ pedidos_cache' = <<>>
  /\ admin_sessions' =
       [admin_sessions EXCEPT ![s].step = "page", ![s].pending = <<>>,
                              ![s].changes = <<>>]
  /\ UNCHANGED <<store, twoAdminsFrame>>

\* ttl=15: the cached table expires
CacheExpire ==
  /\ pedidos_cache # <<>>
  /\ pedidos_cache' = <<>>
  /\ UNCHANGED <<store, admin_sessions, twoAdminsFrame>>

NextTwoAdmins ==
  \/ \E s \in Sessions : SessionRun(s)
  \/ \E s \in Sessions, label \in ConcurrentLabels : SessionEdit(s, label)
  \/ \E s \in Sessions : FlushLoad(s)
  \/ \E s \in Sessions : FlushWrite(s)
  \/ \E s \in Sessions : FlushFinish(s)
  \/ CacheExpire

SpecTwoAdmins == InitTwoAdmins /\ [][NextTwoAdmins]_vars

\* session a pressed its flush after the flush of session b had written, the
\* two flushed different labels, and both flushes are over
FlushedAfter(a, b) ==
  /\ a # b
  /\ admin_sessions[a].step = "page" /\ admin_sessions[b].step = "page"
  /\ admin_sessions[a].flushed # <<>> /\ admin_sessions[b].flushed # <<>>
  /\ admin_sessions[a].flushed # admin_sessions[b].flushed
  /\ admin_sessions[b].wrote_at > 0
  /\ admin_sessions[a].loaded_at > admin_sessions[b].wrote_at

\* C14: when two admin sessions flush different statuses for the same row,
\* the later flush diffs against the status the store holds at that moment,
\* so once both flushes are over the row holds the status flushed last: if
\* session a pressed its flush after the flush of session b had written, the
\* persisted STATUS is the one of a's label.
C14_LastFlushWins ==
  \A a, b \in Sessions :
    FlushedAfter(a, b) =>
      store[1]["STATUS"] = STATUS_LABEL_INV(admin_sessions[a].flushed[1])


\* the events of the data editor that add one free-form row: the "+" of the
\* grid, with nothing or with a service typed into the new row
FreeFormAdds ==
  {[deleted_rows |-> <<>>, edited_rows |-> <<>>, added_rows |-> <<a>>] :
     a \in {<<>>, <<[col |-> "SERVIÇO", val |-> Corte]>>}}

\* the line set holds a row without UTD, BASE and TURMA, with one package and
\* the given target
HasFreeFormRow(lines, geracao_default) ==
  \E k \in 1..Len(lines) :
    /\ lines[k]["UTD"] = EmptyText
    /\ lines[k]["BASE"] = EmptyText
    /\ lines[k]["TURMA"] = EmptyText
    /\ lines[k]["PACOTES"] = 1
    /\ lines[k]["GERACAO_PARA"] = geracao_default

\* C21: a free-form row added through a grid edit with empty UTD, BASE and
\* TURMA is accepted into the line set with the default target and one
\* package, and is still in the line set after the reconciliation of the page
\* run that follows the edit: whenever the editor is drawn, adding a row leaves
\* that row both in what _apply_editor_changes stores and in what the page run
\* leaves in lines_df.
C21_FreeFormRowStays ==
  rendered.editor =>
    \A ev \in FreeFormAdds, drawn \in PageTimes, now \in PageTimes :
      LET geracao_default == current_time_window(drawn).default_option
          edited == _apply_editor_changes(lines_df, ev, geracao_default)
          sel == NextBaseSel(utd_base_sel, utds_sel, turma_sel)
          synced == LinesAfterSync(edited, utds_sel, sel, turma_sel, now)
      IN  /\ HasFreeFormRow(edited, geracao_default)
          /\ HasFreeFormRow(synced, geracao_default)


(* ------------------------------------------------------------------ *)
(* SpecEditor: _apply_editor_changes applied to arbitrary lines and to  *)
(* the editor states the data editor can hold: its deleted_rows,        *)
(* edited_rows and added_rows accumulate from one change to the next.   *)
(* ------------------------------------------------------------------ *)

MaxEditorLines == 2

EditorRowPool ==
  {MkRow(0, U1, B1, STC, AMANHA, EmptyText, 1, EmptyText, EmptyText, Z1),
   MkRow(0, U1, B1, STC, AMANHA, Corte, 2, JustOk, EmptyText, Z1),
   MkRow(0, U2, B3, EPS, HOJE, CorteGaviao, 1, JustOk, EmptyText, Z4)}

\* the cells an entry of edited_rows may name, the disabled and the hidden
\* columns among them
EditorCells ==
  {[col |-> "SERVIÇO", val |-> Corte],
   [col |-> "PACOTES", val |-> <<3>>],
   [col |-> "UTD", val |-> U2],
   [col |-> "ZONA", val |-> Z2]}

\* the editor states over a grid of n rows: at most one deleted position, one
\* edited cell and one added row
EditorStates(n) ==
  LET positions == 0..(n - 1)
  IN  {[deleted_rows |-> d, edited_rows |-> e, added_rows |-> a] :
         d \in {<<>>} \cup {<<p>> : p \in positions},
         e \in {<<>>} \cup {<<[row |-> r, col |-> c.col, val |-> c.val]>> :
                              r \in positions, c \in EditorCells},
         a \in {<<>>, <<<<>>>>, <<<<[col |-> "SERVIÇO", val |-> Corte]>>>>}}

InitEditor ==
  /\ SessionInit
  /\ AdminInit
  /\ table_columns = OptionalColumns
  /\ pc = "input"
  /\ result = <<>>
  /\ \E lines \in SeqsUpTo(EditorRowPool, MaxEditorLines), gd \in {HOJE, AMANHA} :
     \E ed_state \in EditorStates(Len(lines)) :
       call = [lines |-> IgnoreIndex(lines), ed_state |-> ed_state,
               geracao_default |-> gd]

ApplyGridEdit ==
  /\ pc = "input"
  /\ result' = <<_apply_editor_changes(call.lines, call.ed_state, call.geracao_default)>>
  /\ pc' = "edited"
  /\ UNCHANGED <<call, pageVars, adminVars, auxVars>>

\* the same callback once more, the editor state still held under its key
ApplyGridEditAgain ==
  /\ pc = "edited"
  /\ result' = Append(result, _apply_editor_changes(result[1], call.ed_state,
                                                    call.geracao_default))
  /\ pc' = "again"
  /\ UNCHANGED <<call, pageVars, adminVars, auxVars>>

NextEditor == ApplyGridEdit \/ ApplyGridEditAgain

SpecEditor == InitEditor /\ [][NextEditor]_vars

\* the pre-existing lines the deletions leave, in their order
Survivors == DropRowsOf(call.lines, call.ed_state.deleted_rows)

\* C22: _apply_editor_changes applies cell edits only to GERACAO_PARA,
\* SERVIÇO, PACOTES, JUSTIFICATIVA and COMENTARIO: whatever column the edit
\* names, every surviving pre-existing line has the UTD, BASE, TURMA and ZONA
\* it had.
C22_EditsKeepIdentityColumns ==
  pc = "edited" =>
    /\ Len(result[1]) >= Len(Survivors)
    /\ \A k \in 1..Len(Survivors) :
         \A c \in {"UTD", "BASE", "TURMA", "ZONA"} : result[1][k][c] = Survivors[k][c]

\* C27: _apply_editor_changes changes the number of lines only through the
\* deleted and the added rows: the result has
\* len(lines) - |deleted rows| + |added rows| lines.
C27_LineCountFollowsDeletedAndAdded ==
  pc = "edited" =>
    Len(result[1]) = Len(call.lines) - Len(call.ed_state.deleted_rows)
                       + Len(call.ed_state.added_rows)


(* ------------------------------------------------------------------ *)
(* SpecTurma: the TURMA of the payload rows, for line frames with and   *)
(* without a TURMA column and rows with and without a TURMA value.      *)
(* ------------------------------------------------------------------ *)

MaxTurmaLines == 2

\* lines that pass every check of the validation and differ in their TURMA
TurmaRowPool ==
  {MkRow(0, U1, B1, t, AMANHA, Corte, 1, JustOk, EmptyText, Z1) :
     t \in {STC, EPS, EmptyText, NaN}}

\* lines 49-50 of pedidos_submission.py, 334-335 of the page: the payload
\* gets a TURMA column holding the turma passed in when the frame has none
TurmaDefaulted(out, turma) ==
  [i \in 1..Len(out) |->
     IF "TURMA" \in DOMAIN out[i] THEN out[i]
     ELSE [c \in DOMAIN out[i] \cup {"TURMA"} |->
             IF c = "TURMA" THEN turma ELSE out[i][c]]]

InitTurma ==
  /\ SessionInit
  /\ AdminInit
  /\ table_columns = OptionalColumns
  /\ pc = "input"
  /\ result = <<>>
  /\ \E lines \in SeqsUpTo(TurmaRowPool, MaxTurmaLines), turma \in TurmaOptions,
        has_turma \in BOOLEAN :
       call = [lines |-> IF has_turma THEN IgnoreIndex(lines)
                         ELSE WithoutColumn(IgnoreIndex(lines), "TURMA"),
               turma |-> turma, nome |-> NameOk, email |-> EmailOk,
               after_10h55 |-> FALSE, timestamp |-> 1]

\* _validate_and_prepare_output with turma_sel = call.turma
ValidateWithTurma ==
  /\ pc = "input"
  /\ result' = _validate_and_prepare_output(
                 TurmaDefaulted(call.lines, call.turma), call.nome, call.email,
                 call.after_10h55, call.timestamp)
  /\ pc' = "page"
  /\ UNCHANGED <<call, pageVars, adminVars, auxVars>>

\* prepare_submission_dataframe(lines_df, nome, email, turma, after_1055)
PrepareWithTurma ==
  /\ pc = "input"
  /\ result' = prepare_submission_dataframe(
                 TurmaDefaulted(call.lines, call.turma), call.nome, call.email,
                 call.after_10h55, call.timestamp)
  /\ pc' = "service"
  /\ UNCHANGED <<call, pageVars, adminVars, auxVars>>

NextTurma == ValidateWithTurma \/ PrepareWithTurma

SpecTurma == InitTurma /\ [][NextTurma]_vars

\* the TURMA a line carries: missing when the frame has no such column
OwnTurma(row) == IF "TURMA" \in DOMAIN row THEN row["TURMA"] ELSE NaN

\* C23: in every payload built by the submission validation each row has a
\* TURMA: a line with a non-empty TURMA of its own keeps it, and a line that
\* lacks one (no value, or the empty text) gets the turma passed to the
\* validator.
C23_PayloadTurmaDefaulted ==
  (pc \in {"page", "service"} /\ result.status = "ok") =>
    /\ Len(result.out) = Len(call.lines)
    /\ \A k \in 1..Len(call.lines) :
         result.out[k]["TURMA"] =
           IF OwnTurma(call.lines[k]) \notin {NaN, EmptyText}
           THEN OwnTurma(call.lines[k]) ELSE call.turma


(* ------------------------------------------------------------------ *)
(* SpecDiff: build_status_changes and update_statuses applied to the    *)
(* tables the request page can leave, with and without the VALIDADO_POR *)
(* column, for pending maps over the keys of the table.                 *)
(* ------------------------------------------------------------------ *)

MaxDiffPending == 2

AllLabels == {LabelAprovado, LabelRecusado, LabelPendente}

\* admin_email of the flush: an address, the "" default of line 569, or None
DiffEmails == {AdminEmail, EmptyText, NaN}

\* the table with and without the approver column
DiffShapes == {OptionalColumns, {"TURMA", "STATUS"}}

\* the rows as an earlier flush may have left them
WithStatus(table, status) ==
  [i \in 1..Len(table) |-> [table[i] EXCEPT !["STATUS"] = status]]

DiffStores == {WithStatus(t, s) : t \in AdminStores(TRUE), s \in {NaN, APROVADO}}

\* pending maps over the keys the grid shows for the table
PendingMaps(table) ==
  LET keys_ == Range(IndexToKey(_load_admin_df(table)))
      items == {[key |-> k, val |-> l] : k \in keys_, l \in AllLabels}
  IN  {q \in SeqsUpTo(items, MaxDiffPending) :
         /\ Len(q) >= 1
         /\ \A i, j \in 1..Len(q) : i # j => q[i].key # q[j].key}

InitDiff ==
  /\ utds_sel = <<>>
  /\ turma_sel = STC
  /\ utd_base_sel = <<>>
  /\ lines_df = _empty_df
  /\ rendered = [editor |-> FALSE, rows |-> 0]
  /\ flash = "none"
  /\ clock = 3
  /\ table_columns \in DiffShapes
  /\ store \in DiffStores
  /\ AdminInit
  /\ pc = "input"
  /\ result = <<>>
  /\ \E pending \in PendingMaps(store), admin_email \in DiffEmails :
       call = [pending |-> pending, admin_email |-> admin_email, table |-> store]

diffFrame ==
  <<utds_sel, turma_sel, utd_base_sel, lines_df, rendered, table_columns, clock,
    flash, call, adminVars, auxVars>>

\* StatusChange.as_tuple
as_tuple(change) ==
  IF change.validado_por = NaN
  THEN <<change.status, change.timestamp, change.nome, change.email, change.utd,
         change.base, change.servico, change.pacotes>>
  ELSE <<change.status, change.validado_por, change.timestamp, change.nome,
         change.email, change.utd, change.base, change.servico, change.pacotes>>

\* the "?" of the UPDATE statement update_statuses executes
Placeholders(has_validado_por) == IF has_validado_por THEN 9 ELSE 8

\* the return value of update_statuses: 0 without changes, else len(params)
UpdateCount(changes) == Len(changes)

BuildChanges ==
  /\ pc = "input"
  /\ result' = <<build_status_changes(_load_admin_df(store), call.pending,
                                      call.admin_email,
                                      pedidos_table_has_column("VALIDADO_POR"))>>
  /\ pc' = "diffed"
  /\ UNCHANGED <<store, diffFrame>>

\* update_statuses when the driver accepts every tuple
UpdateStatuses ==
  /\ pc = "diffed"
  /\ \A k \in 1..Len(result[1]) :
       Len(as_tuple(result[1][k])) =
         Placeholders(pedidos_table_has_column("VALIDADO_POR"))
  /\ store' = update_statuses(store, result[1], pedidos_table_has_column("VALIDADO_POR"))
  /\ result' = Append(result, UpdateCount(result[1]))
  /\ pc' = "updated"
  /\ UNCHANGED diffFrame

\* update_statuses when executemany raises on a tuple of the wrong length:
\* the rows updated before the offending tuple may or may not stay updated
UpdateRaises ==
  /\ pc = "diffed"
  /\ LET bad == {k \in 1..Len(result[1]) :
                  Len(as_tuple(result[1][k])) #
                    Placeholders(pedidos_table_has_column("VALIDADO_POR"))}
     IN  /\ bad # {}
         /\ \E n \in 0..(CHOOSE i \in bad : \A j \in bad : i <= j) - 1 :
              store' = update_statuses(store, SubSeq(result[1], 1, n),
                                       pedidos_table_has_column("VALIDADO_POR"))
  /\ pc' = "raised"
  /\ UNCHANGED <<result, diffFrame>>

NextDiff == BuildChanges \/ UpdateStatuses \/ UpdateRaises

SpecDiff == InitDiff /\ [][NextDiff]_vars

\* C24: every StatusChange the diff emits carries the approver's e-mail iff
\* the store supports the approver field and the new status is APROVADO or
\* RECUSADO; in every other case (field unsupported, or new status
\* EM ANALISE) its approver field is null.
C24_ApproverOnlyOnDecision ==
  pc = "diffed" =>
    \A k \in 1..Len(result[1]) :
      LET change == result[1][k]
      IN  IF /\ pedidos_table_has_column("VALIDADO_POR")
             /\ change.status \in {APROVADO, RECUSADO}
          THEN change.validado_por = call.admin_email
          ELSE change.validado_por = NaN

\* a diff, the approver field supported, that emitted a refusal carrying the
\* e-mail and a change to EM ANALISE carrying none
C24_Witness ==
  /\ pc = "diffed"
  /\ pedidos_table_has_column("VALIDADO_POR")
  /\ call.admin_email = AdminEmail
  /\ \E k \in 1..Len(result[1]) :
       result[1][k].status = RECUSADO /\ result[1][k].validado_por = AdminEmail
  /\ \E k \in 1..Len(result[1]) :
       result[1][k].status = EM_ANALISE /\ result[1][k].validado_por = NaN

\* C25: the number update_statuses returns equals the number of rows of the
\* table whose STATUS the call changed.
C25_CountIsRowsChanged ==
  pc = "updated" =>
    result[2] = Cardinality({i \in 1..Len(store) :
                               store[i]["STATUS"] # call.table[i]["STATUS"]})

\* C26: every parameter tuple update_statuses hands to the store has as many
\* values as the UPDATE statement has placeholders: 9 with the approver
\* column, 8 without.
C26_TupleFitsStatement ==
  pc = "diffed" =>
    \A k \in 1..Len(result[1]) :
      Len(as_tuple(result[1][k])) =
        Placeholders(pedidos_table_has_column("VALIDADO_POR"))


(* ------------------------------------------------------------------ *)
(* SpecAuth: the management page behind its login. Every run of the     *)
(* page passes lines 396-410 before anything of the page is drawn or    *)
(* any button handler is reached; the callbacks of the widgets run      *)
(* before the page and write to the session only.                       *)
(* ------------------------------------------------------------------ *)

ALLOWED_ADMINS ==
  {<<"j","o","a","o",".","a","l","m","e","i","d","a">> \o EmailDomain,
   <<"l","u","i","z",".","e","s","p","o","z","e","l">> \o EmailDomain,
   <<"p","e","d","r","o",".","a","z","e","v","e","d","o">> \o EmailDomain,
   <<"c","a","r","l","l","a",".","v","e","n","t","u","r","a">> \o EmailDomain,
   <<"c","c","s","a","n","t","o","s">> \o EmailDomain,
   <<"d","s","a","r","a","u","j","o">> \o EmailDomain,
   <<"m","a","d","s","o","n",".","m","e","l","o">> \o EmailDomain,
   <<"j","s","b","r","i","t","o">> \o EmailDomain}

\* what the users of the login form type as their user name: two
\* administrators of the list, one of them with capitals and a leading
\* blank, and a requester who has credentials but is not on the list
JoaoTyped == <<" ","J","o","a","o",".","A","l","m","e","i","d","a">> \o EmailDomain

AuthUsers == {JoaoTyped, <<"j","s","b","r","i","t","o">> \o EmailDomain, EmailOk}

\* line 405: (st.session_state.get(USERNAME) or "").strip().lower()
UserEmail == str_lower(str_strip(IF username = NaN THEN EmptyText ELSE username))

\* A mutated gate: the allow-list is not consulted.
GateSkipsAllowList == authentication_status = <<TRUE>>

\* lines 396-408: the run goes on only for an authenticated user of the list
PassesGate == authentication_status = <<TRUE>> /\ UserEmail \in ALLOWED_ADMINS

\* what a run leaves of the grid: drawn anew past the gate, else as it was
GatedRender ==
  IF PassesGate' THEN AdminRender(store) ELSE UNCHANGED admin_index_to_key

\* the login form is submitted: the authenticator stores the outcome, and the
\* run goes on to the gate
AuthLogin(user, ok) ==
  /\ authentication_status # <<TRUE>>
  /\ authentication_status' = <<ok>>
  /\ username' = IF ok THEN user ELSE NaN
  /\ GatedRender
  /\ admin_notice' = IF PassesGate' THEN "none" ELSE "stopped"
  /\ UNCHANGED <<pageVars, fnVars, admin_pending_changes, csv_row_selection,
                 csv_gen_state, show_csv_tools, csv_excluir_desmarcados,
                 full_reset_flag, admin_sessions, pedidos_cache>>

\* the "Sair" button: the authenticator forgets the user, the next run stops
\* at the gate
AuthLogout ==
  /\ authentication_status = <<TRUE>>
  /\ authentication_status' = <<>>
  /\ username' = NaN
  /\ admin_notice' = "stopped"
  /\ UNCHANGED <<pageVars, fnVars, adminVars, csv_excluir_desmarcados,
                 full_reset_flag, admin_sessions, pedidos_cache>>

\* a STATUS cell event reaches the session: the callback runs before the page
AuthCapture(idx, label) ==
  /\ idx \in 1..Len(admin_index_to_key)
  /\ admin_pending_changes' = DictSet(admin_pending_changes, admin_index_to_key[idx], label)
  /\ admin_notice' = IF PassesGate THEN "none" ELSE "stopped"
  /\ UNCHANGED <<pageVars, fnVars, adminFrame, admin_index_to_key, csv_row_selection,
                 csv_gen_state, show_csv_tools>>

\* a click of "Aplicar mudancas no HANA" reaches the session: past the gate
\* line 410 stores the user's e-mail as ADMIN_EMAIL and the handler flushes
\* with it
AuthApply ==
  /\ PassesGate
  /\ ApplyPendingAs(UserEmail)

\* the same click in a session the gate stops: st.stop() ends the run before
\* the button is reached
AuthApplyStopped ==
  /\ ~PassesGate
  /\ admin_pending_changes # <<>>
  /\ admin_notice' = "stopped"
  /\ UNCHANGED <<pageVars, fnVars, adminVars, adminFrame>>

NextAuth ==
  \/ \E user \in AuthUsers, ok \in BOOLEAN : AuthLogin(user, ok)
  \/ AuthLogout
  \/ \E idx \in 1..MaxAdminRows, label \in AllLabels : AuthCapture(idx, label)
  \/ AuthApply
  \/ AuthApplyStopped

\* the deployed table with one order in it, nobody logged in
InitAuth ==
  /\ utds_sel = <<>>
  /\ turma_sel = STC
  /\ utd_base_sel = <<>>
  /\ lines_df = _empty_df
  /\ rendered = [editor |-> FALSE, rows |-> 0]
  /\ flash = "none"
  /\ clock = 3
  /\ table_columns = OptionalColumns
  /\ store \in {t \in AdminStores(TRUE) : Len(t) = 1}
  /\ AdminInit
  /\ FnIdle

SpecAuth == InitAuth /\ [][NextAuth]_vars

\* C28: every status update sent to the store from the management page is
\* issued in a session whose authentication status is true and whose
\* lower-cased user e-mail is in the admin allow-list, and every VALIDADO_POR
\* value written is that e-mail: a step that changes the table is taken by
\* such a session, and the approver it writes is the session's e-mail.
C28_FlushOnlyByAllowedAdmin ==
  [][store' # store =>
       /\ authentication_status = <<TRUE>>
       /\ UserEmail \in ALLOWED_ADMINS
       /\ \A i \in 1..Len(store) :
            store'[i]["VALIDADO_POR"] # store[i]["VALIDADO_POR"] =>
              store'[i]["VALIDADO_POR"] = UserEmail]_vars

\* a row approved by the administrator who typed the address with capitals,
\* and later a requester with credentials whose click on the flush, pending
\* changes at hand, was stopped at the gate
C28_Witness ==
  /\ \E i \in 1..Len(store) :
       /\ store[i]["STATUS"] = APROVADO
       /\ store[i]["VALIDADO_POR"] =
            <<"j","o","a","o",".","a","l","m","e","i","d","a">> \o EmailDomain
  /\ authentication_status = <<TRUE>>
  /\ username = EmailOk
  /\ admin_pending_changes # <<>>
  /\ admin_notice = "stopped"


(* ------------------------------------------------------------------ *)
(* Pressing Enviar again after a submission that went through.          *)
(* ------------------------------------------------------------------ *)

\* the cell is blank for the required-column test of the validation
BlankCell(v) == v = NaN \/ str_strip(astype_str(v)) = EmptyText

\* no line holds a SERVIÇO or a JUSTIFICATIVA
NothingEntered(lines) ==
  \A i \in 1..Len(lines) :
    BlankCell(lines[i]["SERVIÇO"]) /\ BlankCell(lines[i]["JUSTIFICATIVA"])

\* the change of the data editor carries a SERVIÇO or a JUSTIFICATIVA
EntersText(ed_state) ==
  LET entered(c) == c.col \in {"SERVIÇO", "JUSTIFICATIVA"}
  IN  \/ \E i \in 1..Len(ed_state.edited_rows) : entered(ed_state.edited_rows[i])
      \/ \E i \in 1..Len(ed_state.added_rows) :
           \E j \in 1..Len(ed_state.added_rows[i]) : entered(ed_state.added_rows[i][j])

\* the step is a change of the data editor that enters a SERVIÇO or a
\* JUSTIFICATIVA
UserEntersText ==
  \E ev \in EditorEvents(rendered.rows), drawn \in EditTimes, now \in EditTimes :
    EntersText(ev) /\ GridEdit(ev, drawn, now)

\* what pressing Enviar would do from the lines, whoever the requester, at
\* whatever time, the insert not failing
EnviarOutcomes(lines) ==
  {Outcome(_validate_and_prepare_output(
             LinesAfterSync(lines, utds_sel, utd_base_sel, turma_sel, now),
             who.nome, who.email, current_time_window(now).after_1055, clock),
           TRUE) : who \in Requesters, now \in PageTimes}

\* C29: a batch is never persisted twice. A submission that goes through
\* empties the line table; from then on, through every page run that is not a
\* grid change entering a SERVIÇO or a JUSTIFICATIVA, no line holds either of
\* them, and while that is so pressing Enviar inserts nothing.
C29_NoSecondInsertWithoutReentry ==
  [][/\ store' # store => lines_df' = _empty_df
     /\ (NothingEntered(lines_df) /\ ~UserEntersText) => NothingEntered(lines_df')
     /\ NothingEntered(lines_df) =>
          /\ store' = store
          /\ "ok" \notin EnviarOutcomes(lines_df)]_vars

\* Enviar pressed again after a submission went through: the lines of the
\* selected pairs are back, blank, and the click was rejected for the SERVIÇO
C29_Witness ==
  /\ clock = 2
  /\ Len(store) > 0
  /\ flash = "rejected"
  /\ lines_df # _empty_df
  /\ NothingEntered(lines_df)
  /\ _validate_and_prepare_output(lines_df, NameOk, EmailOk, FALSE, clock).error = "SERVIÇO"


(* ------------------------------------------------------------------ *)
(* The button "Alternar selecao" on the rows the grid shows.            *)
(* ------------------------------------------------------------------ *)

\* the flag CsvSelectionState holds for a key: sel_map.get(key, True)
SelectionFlag(sel_map, key) == DictGet(sel_map, key, TRUE)

SelectionKeys(sel_map) == {sel_map[i].key : i \in 1..Len(sel_map)}

\* C30: Alternar selecao inverts the CSV selection flag of every row the
\* filtered grid shows (a key never seen counting as selected), leaves the
\* flag of every other key as it was, and pressed twice on the same rows
\* gives every key the flag it had.
C30_ToggleInvertsShownRows ==
  [][ToggleSelection =>
       LET shown == Range(admin_index_to_key)
           known == SelectionKeys(csv_row_selection) \cup SelectionKeys(csv_row_selection')
           twice == _toggle_selection(csv_row_selection', admin_index_to_key)
       IN  /\ \A key \in shown :
                SelectionFlag(csv_row_selection', key) = ~SelectionFlag(csv_row_selection, key)
           /\ \A key \in known \ shown :
                SelectionFlag(csv_row_selection', key) = SelectionFlag(csv_row_selection, key)
           /\ \A key \in known \cup shown :
                SelectionFlag(twice, key) = SelectionFlag(csv_row_selection, key)]_vars

====
